---- MODULE Spec2Model ----
(***************************************************************************)
(* A model of the tramp-rpc server: the framed request loop of main.rs,    *)
(* the dispatcher and batch aggregator of handlers/mod.rs, the shared      *)
(* stdout writer (responses and fs.changed notifications), the pipe-backed *)
(* and PTY-backed process tables of handlers/process.rs, and the watch     *)
(* registry of watcher.rs.                                                 *)
(***************************************************************************)
EXTENDS Integers, Sequences, FiniteSets, TLC

VARIABLES
    stdin,      \* bytes not yet read from stdin, as a sequence of segments
    reader,     \* position of main()'s read loop: "len" | "payload" | "join" | "exit"
    curLen,     \* the length prefix decoded by the current loop iteration
    tasks,      \* the JoinSet: one record per spawned request task
    writer,     \* holder of the stdout mutex (NoHolder when free)
    stdout,     \* every write_all issued on the BufWriter, in order
    events,     \* the channel from the notify callback to debounce_loop
    fsLeft,     \* filesystem mutations the environment may still produce
    debounce,   \* debounce_loop: [pc, pending, sent], the time left until `deadline`,
                \* the time since the window opened, and the events each window received
    pidCounter, \* PID_COUNTER
    processMap, \* PROCESS_MAP: key -> managed child
    mapLock,    \* holder of the PROCESS_MAP mutex (0 when free)
    calls,      \* in-flight process.* handler invocations
    issued,     \* keys handed out by get_next_pid, in allocation order
    ptyCounter, \* PTY_PID_COUNTER
    ptyMap,     \* PTY_PROCESS_MAP: key -> managed PTY child
    ptyLock,    \* holder of the PTY_PROCESS_MAP mutex (0 when free)
    closed,     \* per PTY key: how many times its master descriptor was closed
    ptyIssued,  \* keys handed out by get_next_pty_pid, in allocation order
    watched_paths, \* WatchManager.watched_paths: canonical path -> recursive
    osWatched,  \* paths the OS watcher holds a watch for
    watcherLock, \* holder of the WatchManager.watcher mutex (0 when free)
    pathsLock,  \* holder of the WatchManager.watched_paths mutex (0 when free)
    dirs,       \* directories that exist on the host
    wcalls,     \* watch.* handler invocations
    stderr,     \* every line the process has written to standard error
    sinkOpen,   \* the client still reads the stdout pipe
    rp,         \* a commands.run_parallel invocation
    scan,       \* an ancestors.scan invocation
    listing     \* a dir.list invocation

vars == <<stdin, reader, curLen, tasks, writer, stdout, events, fsLeft, debounce,
          pidCounter, processMap, mapLock, calls, issued,
          ptyCounter, ptyMap, ptyLock, closed, ptyIssued,
          watched_paths, osWatched, watcherLock, pathsLock, dirs, wcalls,
          stderr, sinkOpen, rp, scan, listing>>

transportVars == <<stdin, reader, curLen, tasks, writer, stdout, events, fsLeft, debounce,
                   stderr, sinkOpen>>
procVars == <<pidCounter, processMap, mapLock, calls, issued>>
ptyVars == <<ptyCounter, ptyMap, ptyLock, closed, ptyIssued>>
watchVars == <<watched_paths, osWatched, watcherLock, pathsLock, dirs, wcalls>>
leafVars == <<rp, scan, listing>>
\* everything owned by the handlers rather than by the transport
handlerVars == <<procVars, ptyVars, watchVars, leafVars>>
\* everything a pipe-table handler leaves alone besides the pipe table itself
outsidePipeVars == <<transportVars, ptyVars, watchVars, leafVars>>

----------------------------------------------------------------------------
(* Bounds of the model *)

MaxFrames == 2      \* frames the client sends before closing stdin
MaxBatch == 2       \* sub-requests in one batch request
MaxFsEvents == 2    \* filesystem events delivered by the OS watcher
MaxCalls == 3       \* process.* requests handled in one run
TickMs == 100       \* milliseconds by which time advances in one step
BurstSize == 10001  \* events the watcher thread delivers in one burst
MaxCommands == 2    \* entries of a commands.run_parallel request spelled out one by one
MaxLevel == 2       \* depth of the deepest directory below the root
MaxMarkers == 2     \* markers in one ancestors.scan request
MaxNameLen == 2     \* bytes in a file name
MaxEntries == 2     \* entries of a listed directory

----------------------------------------------------------------------------
(* Program constants *)

MaxMessageSize == 104857600      \* 100 * 1024 * 1024

PARSE_ERROR == -32700
INVALID_REQUEST == -32600
METHOD_NOT_FOUND == -32601
INVALID_PARAMS == -32602
INTERNAL_ERROR == -32603
FILE_NOT_FOUND == -32001
IO_ERROR == -32003
PROCESS_ERROR == -32004

Null == "null"      \* nil on the wire
NoId == 0           \* Response.id = None (client ids are positive)

----------------------------------------------------------------------------
(* The input stream.  A segment is a run of n bytes:                        *)
(*   k = "len"  : a 4-byte big-endian length prefix whose value is v        *)
(*   k = "msg"  : one complete MessagePack document, v describes it         *)
(*   k = "junk" : n bytes in which every aligned 4-byte word has value v    *)
(*   k = "frag" : a piece cut out of a "len" or "msg" segment               *)

PrefixLen == 4

\* encoded size of every document the modelled client sends
MsgLen == 2 * PrefixLen

\* A word a misframed read_exact(4) sees inside an encoded Request: the bytes
\* 'v' 'e' 'r' 's' of the key "version".  Four bytes of printable text are always
\* above the 100 MiB limit, so such a word is skipped as an oversize length.
TextWord == 118 * 16777216 + 101 * 65536 + 114 * 256 + 115

Seg(k, n, v) == [k |-> k, n |-> n, v |-> v]

RECURSIVE Bytes(_)
Bytes(s) == IF s = <<>> THEN 0 ELSE Head(s).n + Bytes(Tail(s))

\* u32::from_be_bytes of the first 4 bytes of the stream, when the stream is
\* not at a frame boundary the word comes from whatever bytes are there.
WordOf(seg) == IF seg.k \in {"len", "junk"} THEN seg.v ELSE TextWord

Cut(seg, n) == IF seg.k = "junk" THEN Seg("junk", n, seg.v) ELSE Seg("frag", n, Null)

\* read_exact(n): the first n bytes of the stream (n <= Bytes(s))
RECURSIVE Take(_, _)
Take(s, n) ==
    IF n = 0 THEN <<>>
    ELSE IF Head(s).n <= n THEN <<Head(s)>> \o Take(Tail(s), n - Head(s).n)
    ELSE <<Cut(Head(s), n)>>

RECURSIVE Drop(_, _)
Drop(s, n) ==
    IF n = 0 THEN s
    ELSE IF Head(s).n <= n THEN Drop(Tail(s), n - Head(s).n)
    ELSE <<Cut(Head(s), Head(s).n - n)>> \o Tail(s)

----------------------------------------------------------------------------
(* Protocol values (protocol.rs) *)

NoParams == [wf |-> TRUE, requests |-> <<>>]

\* What a payload decodes to.  shape = "ok": a map with version, id, method
\* (and params); "nomethod": a map with version and id but no method;
\* "garbage": not a MessagePack map at all.
Msg(shape, version, id, method, params) ==
    [shape |-> shape, version |-> version, id |-> id, method |-> method, params |-> params]

Success(id, result) == [id |-> id, ok |-> TRUE, code |-> 0, result |-> result]

Error(id, code) == [id |-> id, ok |-> FALSE, code |-> code, result |-> Null]

NoResponse == [id |-> NoId, ok |-> FALSE, code |-> 0, result |-> Null]

\* rmp_serde::from_slice::<Request>(payload): Ok only for one whole document
\* holding every required field
Decodes(payload) ==
    /\ Len(payload) = 1
    /\ payload[1].k = "msg"
    /\ payload[1].v.shape = "ok"

Decoded(payload) == payload[1].v

----------------------------------------------------------------------------
(* The dispatcher (handlers/mod.rs) *)

\* the match arms of dispatch_inner
RoutedMethods ==
    { "file.stat", "file.stat_batch", "file.exists", "file.readable", "file.writable",
      "file.executable", "file.truename", "file.newer_than",
      "dir.list", "dir.create", "dir.remove", "dir.completions",
      "file.read", "file.write", "file.copy", "file.rename", "file.delete",
      "file.set_modes", "file.set_times", "file.make_symlink", "file.make_hardlink",
      "file.chown",
      "process.run", "process.start", "process.write", "process.read",
      "process.close_stdin", "process.kill", "process.list",
      "process.start_pty", "process.read_pty", "process.write_pty",
      "process.resize_pty", "process.kill_pty", "process.close_pty", "process.list_pty",
      "system.info", "system.getenv", "system.expand_path", "system.statvfs",
      "system.groups" }

\* handlers that allocate a caller-sized buffer (vec![0u8; n] with n taken from
\* the request): a size above isize::MAX panics with "capacity overflow"
PanickingMethods == { "process.read", "process.read_pty", "file.read" }

\* what awaiting a routed handler can produce
HandlerOutcomes(method) ==
    { [kind |-> "ok", code |-> 0], [kind |-> "err", code |-> IO_ERROR] }
        \cup (IF method \in PanickingMethods THEN { [kind |-> "panic", code |-> 0] } ELSE {})

\* the match of dispatch_inner: the outcomes of routing one method name
RouteOutcomes(method) ==
    IF method \in RoutedMethods
    THEN HandlerOutcomes(method)
    ELSE { [kind |-> "err", code |-> METHOD_NOT_FOUND] }

\* batch_execute's conversion of a sub-response to a result object
Wrap(out) ==
    IF out.kind = "ok" THEN [result |-> "value", code |-> 0]
    ELSE [result |-> Null, code |-> out.code]

\* a faulty aggregator that hands results back in completion order
BatchResultsByCompletion(subs, order) == [i \in 1..Len(order) |-> Wrap(subs[order[i]].out)]

\* futures::future::join_all: one output per input future, in input order
BatchResults(subs, order) == [i \in 1..Len(subs) |-> Wrap(subs[i].out)]

\* dispatch: Ok(value) of batch_execute becomes the outer success response
BatchResponse(id, results) == Success(id, results)

----------------------------------------------------------------------------
(* What the client sends *)

Frame(msg) == << Seg("len", PrefixLen, MsgLen), Seg("msg", MsgLen, msg) >>

OversizeLen == MaxMessageSize + PrefixLen

\* the frames of one client stream; i is the position, used as the request id
FrameKinds ==
    { "exists", "read", "watch_add", "unknown", "batch", "batch_bad_params",
      "bad_version", "no_method", "garbage", "empty",
      "oversize_text", "oversize_zero", "oversize_swallow", "truncated" }

SpecBatchRequests == << "file.stat", "batch" >>

Oversize(payload) == << Seg("len", PrefixLen, OversizeLen) >> \o payload

ClientFrame(kind, i) ==
    CASE kind = "exists" -> Frame(Msg("ok", "2.0", i, "file.exists", NoParams))
      [] kind = "read" -> Frame(Msg("ok", "2.0", i, "process.read", NoParams))
      [] kind = "watch_add" -> Frame(Msg("ok", "2.0", i, "watch.add", NoParams))
      [] kind = "unknown" -> Frame(Msg("ok", "2.0", i, "nonexistent.method", NoParams))
      [] kind = "batch" ->
            Frame(Msg("ok", "2.0", i, "batch", [wf |-> TRUE, requests |-> SpecBatchRequests]))
      [] kind = "batch_bad_params" ->
            Frame(Msg("ok", "2.0", i, "batch", [wf |-> FALSE, requests |-> <<>>]))
      [] kind = "bad_version" -> Frame(Msg("ok", "1.0", i, "file.exists", NoParams))
      [] kind = "no_method" -> Frame(Msg("nomethod", "2.0", i, Null, NoParams))
      [] kind = "garbage" -> Frame(Msg("garbage", Null, NoId, Null, NoParams))
      [] kind = "empty" -> << Seg("len", PrefixLen, 0) >>
         \* an oversize frame whose payload is text
      [] kind = "oversize_text" -> Oversize(<< Seg("junk", OversizeLen, TextWord) >>)
         \* an oversize frame whose payload starts with four zero bytes
      [] kind = "oversize_zero" ->
            Oversize(<< Seg("junk", PrefixLen, 0),
                        Seg("junk", OversizeLen - PrefixLen, TextWord) >>)
         \* an oversize frame whose payload ends with a word that reads as the
         \* length of the frame that follows it
      [] kind = "oversize_swallow" ->
            Oversize(<< Seg("junk", OversizeLen - PrefixLen, TextWord),
                        Seg("junk", PrefixLen, PrefixLen + MsgLen) >>)
         \* stdin closes in the middle of this frame
      [] kind = "truncated" -> << Seg("len", PrefixLen, MsgLen), Seg("frag", PrefixLen, Null) >>

RECURSIVE Stream(_, _)
Stream(kinds, i) ==
    IF i > Len(kinds) THEN <<>> ELSE ClientFrame(kinds[i], i) \o Stream(kinds, i + 1)

KindSeqs(K, n) == UNION { [1..m -> K] : m \in 0..n }

\* a stream is closed by the client after its last frame; a truncated frame can
\* only be the last one
WellFormedStream(kinds) == \A i \in 1..Len(kinds) : kinds[i] = "truncated" => i = Len(kinds)

ClientStreams ==
    { Stream(kinds, 1) : kinds \in { ks \in KindSeqs(FrameKinds, MaxFrames) : WellFormedStream(ks) } }

----------------------------------------------------------------------------
(* Request tasks (main.rs: tasks.spawn) *)

NoHolder == << "none", 0 >>
TaskOwner(t) == << "task", t >>
NotifyOwner(n) == << "notify", n >>

NewTask(payload) ==
    [pc |-> "start", payload |-> payload, resp |-> NoResponse, subs |-> <<>>, order |-> <<>>]

Chunk(owner, part, frame) == [owner |-> owner, part |-> part, frame |-> frame]

\* a writer that hands the sink out in spawn order only
WriterAvailableInOrder(owner) ==
    /\ writer = NoHolder
    /\ owner[1] = "task" =>
          \A u \in 1..(owner[2] - 1) : tasks[u].pc \in {"done", "panicked"}

\* a writer without mutual exclusion
WriterAlwaysAvailable(owner) == TRUE

\* writer.lock().await returns: tokio's Mutex is free
WriterAvailable(owner) == writer = NoHolder

----------------------------------------------------------------------------
(* main(): the read loop *)

\* bytes one `continue` sequence of the loop eats: a run of identical words above
\* the limit makes every iteration read 4 bytes and skip, so the iterations over
\* one run are folded into a single step
SkipBytes(seg) ==
    IF seg.k = "len" \/ seg.n < 2 * PrefixLen THEN PrefixLen
    ELSE PrefixLen * (seg.n \div PrefixLen)

\* stdin.read_exact(&mut len_buf), the size check and its `continue`
ReadLen ==
    /\ reader = "len"
    /\ IF Bytes(stdin) < PrefixLen
       THEN \* EOF or error: break
            /\ reader' = "join"
            /\ stdin' = <<>>
            /\ UNCHANGED curLen
       ELSE IF WordOf(Head(stdin)) > MaxMessageSize
       THEN \* silently skip: back to the top of the loop
            /\ stdin' = Drop(stdin, SkipBytes(Head(stdin)))
            /\ UNCHANGED <<reader, curLen, stderr, sinkOpen>>
       ELSE /\ stdin' = Drop(stdin, PrefixLen)
            /\ curLen' = WordOf(Head(stdin))
            /\ reader' = "payload"
    /\ UNCHANGED <<tasks, writer, stdout, events, fsLeft, debounce, stderr, sinkOpen>>
    /\ UNCHANGED handlerVars

\* stdin.read_exact(&mut payload) and tasks.spawn
ReadPayload ==
    /\ reader = "payload"
    /\ IF Bytes(stdin) < curLen
       THEN \* EOF inside the frame: break
            /\ reader' = "join"
            /\ stdin' = <<>>
            /\ UNCHANGED tasks
       ELSE /\ tasks' = Append(tasks, NewTask(Take(stdin, curLen)))
            /\ stdin' = Drop(stdin, curLen)
            /\ reader' = "len"
    /\ UNCHANGED <<curLen, writer, stdout, events, fsLeft, debounce, stderr, sinkOpen>>
    /\ UNCHANGED handlerVars

\* while tasks.join_next().await.is_some() {} and the return from main: every
\* spawned task has ended, and with it the handler invocation it was running
JoinTasks ==
    /\ reader = "join"
    /\ \A t \in 1..Len(tasks) : tasks[t].pc \in {"done", "panicked"}
    /\ \A c \in DOMAIN calls : calls[c].pc \in {"idle", "done", "panicked"}
    /\ reader' = "exit"
    /\ UNCHANGED <<stdin, curLen, tasks, writer, stdout, events, fsLeft, debounce, stderr, sinkOpen>>
    /\ UNCHANGED handlerVars

----------------------------------------------------------------------------
(* process_request and dispatch, run inside the spawned task *)

PendingSubs(requests) ==
    [i \in 1..Len(requests) |->
        [method |-> requests[i], st |-> "pending", out |-> [kind |-> "none", code |-> 0]]]

\* the task records process_request can leave behind when it returns, suspends
\* in join_all, or unwinds
ProcessRequest(task) ==
    IF ~Decodes(task.payload)
    THEN { [task EXCEPT !.pc = "ready", !.resp = Error(NoId, PARSE_ERROR)] }
    ELSE LET req == Decoded(task.payload) IN
         IF req.version # "2.0"
         THEN { [task EXCEPT !.pc = "ready", !.resp = Error(req.id, INVALID_REQUEST)] }
         ELSE IF req.method = "batch"
         THEN IF ~req.params.wf
              THEN { [task EXCEPT !.pc = "ready", !.resp = Error(req.id, INVALID_PARAMS)] }
              ELSE { [task EXCEPT !.pc = "batch", !.subs = PendingSubs(req.params.requests)] }
         ELSE { IF out.kind = "panic" THEN [task EXCEPT !.pc = "panicked"]
                ELSE IF out.kind = "ok"
                THEN [task EXCEPT !.pc = "ready", !.resp = Success(req.id, "value")]
                ELSE [task EXCEPT !.pc = "ready", !.resp = Error(req.id, out.code)]
                : out \in RouteOutcomes(req.method) }

\* no panic hook is installed: a panic unwinds the task after the default hook
\* has printed its message to standard error
PanicMessage == "thread 'tokio-runtime-worker' panicked"

Unwound(panicked) == IF panicked THEN Append(stderr, PanicMessage) ELSE stderr

TaskRun(t) ==
    /\ tasks[t].pc = "start"
    /\ \E next \in ProcessRequest(tasks[t]) :
          /\ tasks' = [tasks EXCEPT ![t] = next]
          /\ stderr' = Unwound(next.pc = "panicked")
    /\ UNCHANGED <<stdin, reader, curLen, writer, stdout, events, fsLeft, debounce, sinkOpen>>
    /\ UNCHANGED handlerVars

\* one sub-request future of batch_execute completes (dispatch_inner returns)
BatchSub(t, i) ==
    /\ tasks[t].pc = "batch"
    /\ tasks[t].subs[i].st = "pending"
    /\ \E out \in RouteOutcomes(tasks[t].subs[i].method) :
          /\ tasks' = [tasks EXCEPT ![t] =
                      IF out.kind = "panic" THEN [@ EXCEPT !.pc = "panicked"]
                      ELSE [@ EXCEPT !.subs[i] = [@ EXCEPT !.st = "done", !.out = out],
                                     !.order = Append(@, i)]]
          /\ stderr' = Unwound(out.kind = "panic")
    /\ UNCHANGED <<stdin, reader, curLen, writer, stdout, events, fsLeft, debounce, sinkOpen>>
    /\ UNCHANGED handlerVars

\* join_all is ready: batch_execute returns Ok({results}) and dispatch wraps it
BatchFinish(t) ==
    /\ tasks[t].pc = "batch"
    /\ \A i \in 1..Len(tasks[t].subs) : tasks[t].subs[i].st = "done"
    /\ tasks' = [tasks EXCEPT ![t] =
                    [@ EXCEPT !.pc = "ready",
                              !.resp = BatchResponse(Decoded(tasks[t].payload).id,
                                                     BatchResults(tasks[t].subs,
                                                                  tasks[t].order))]]
    /\ UNCHANGED <<stdin, reader, curLen, writer, stdout, events, fsLeft, debounce, stderr, sinkOpen>>
    /\ UNCHANGED handlerVars

----------------------------------------------------------------------------
(* Writing the response frame (main.rs, inside the spawned task) *)

TaskLock(t) ==
    /\ tasks[t].pc = "ready"
    /\ WriterAvailable(TaskOwner(t))
    /\ writer' = TaskOwner(t)
    /\ tasks' = [tasks EXCEPT ![t].pc = "locked"]
    /\ UNCHANGED <<stdin, reader, curLen, stdout, events, fsLeft, debounce, stderr, sinkOpen>>
    /\ UNCHANGED handlerVars

TaskWriteLen(t) ==
    /\ tasks[t].pc = "locked"
    /\ stdout' = Append(stdout, Chunk(TaskOwner(t), "len", tasks[t].resp))
    /\ tasks' = [tasks EXCEPT ![t].pc = "wrote_len"]
    /\ UNCHANGED <<stdin, reader, curLen, writer, events, fsLeft, debounce, stderr, sinkOpen>>
    /\ UNCHANGED handlerVars

TaskWritePayload(t) ==
    /\ tasks[t].pc = "wrote_len"
    /\ stdout' = Append(stdout, Chunk(TaskOwner(t), "payload", tasks[t].resp))
    /\ tasks' = [tasks EXCEPT ![t].pc = "wrote_payload"]
    /\ UNCHANGED <<stdin, reader, curLen, writer, events, fsLeft, debounce, stderr, sinkOpen>>
    /\ UNCHANGED handlerVars

\* writer.flush(), then the guard is dropped at the end of the block
TaskFlush(t) ==
    /\ tasks[t].pc = "wrote_payload"
    /\ writer' = NoHolder
    /\ tasks' = [tasks EXCEPT ![t].pc = "done"]
    /\ UNCHANGED <<stdin, reader, curLen, stdout, events, fsLeft, debounce, stderr, sinkOpen>>
    /\ UNCHANGED handlerVars

----------------------------------------------------------------------------
(* The watcher callback and debounce_loop (watcher.rs) *)

EventPaths == { {"/w/a"}, {"/w/b"} }
EventKinds == { "create", "modify", "remove", "access" }

DEBOUNCE_DURATION == 200    \* milliseconds

\* a run of n identical events in the channel
Run(paths, n) == [paths |-> paths, n |-> n]

RECURSIVE QueueLen(_)
\* the number of events the channel holds
QueueLen(q) == IF q = <<>> THEN 0 ELSE Head(q).n + QueueLen(Tail(q))

\* mpsc::unbounded_channel: tx.send(event) appends, whatever the channel holds
Send(q, paths, n) == Append(q, Run(paths, n))

\* rx.recv() has taken one event
AfterRecv(q) == IF Head(q).n = 1 THEN Tail(q) ELSE <<Run(Head(q).paths, Head(q).n - 1)>> \o Tail(q)

\* the closure given to RecommendedWatcher::new
Forwarded(kind) == kind \in { "create", "modify", "remove" }

\* the watcher thread calls the closure with one event
FsEvent ==
    /\ fsLeft > 0
    /\ reader # "exit"
    /\ fsLeft' = fsLeft - 1
    /\ \E kind \in EventKinds, paths \in EventPaths :
          events' = IF Forwarded(kind) THEN Send(events, paths, 1) ELSE events
    /\ UNCHANGED <<stdin, reader, curLen, tasks, writer, stdout, debounce, stderr, sinkOpen>>
    /\ UNCHANGED handlerVars

\* the watcher thread calls the closure BurstSize times in a row for mutations of
\* one path, before debounce_loop is scheduled again
FsBurst ==
    /\ fsLeft > 0
    /\ reader # "exit"
    /\ fsLeft' = fsLeft - 1
    /\ \E paths \in EventPaths : events' = Send(events, paths, BurstSize)
    /\ UNCHANGED <<stdin, reader, curLen, tasks, writer, stdout, debounce, stderr, sinkOpen>>
    /\ UNCHANGED handlerVars

\* a collector that keeps the paths of the latest event only
ReplacePaths(pending, paths) == paths

\* for path in e.paths { pending_paths.insert(path) }
CollectPaths(pending, paths) == pending \cup paths

\* a sliding window: every event moves the deadline
DeadlineRearmed(remaining) == DEBOUNCE_DURATION

\* the select! arm rx.recv() leaves `deadline` as it was set before the loop
DeadlineAfterEvent(remaining) == remaining

\* phase 1: rx.recv() delivers the first event of a window, a fresh pending set
\* takes its paths, and deadline = now + DEBOUNCE_DURATION
DebounceRecv ==
    /\ reader # "exit"
    /\ debounce.pc = "recv"
    /\ events # <<>>
    /\ debounce' = [debounce EXCEPT !.pc = "window",
                                    !.pending = CollectPaths({}, Head(events).paths),
                                    !.remaining = DEBOUNCE_DURATION,
                                    !.elapsed = 0,
                                    !.windows = Append(@, <<Head(events).paths>>)]
    /\ events' = AfterRecv(events)
    /\ UNCHANGED <<stdin, reader, curLen, tasks, writer, stdout, fsLeft, stderr, sinkOpen>>
    /\ UNCHANGED handlerVars

\* phase 2, select! arm rx.recv().  The iterations over a run of identical events
\* insert the same paths and are folded into one step.
DebounceCollect ==
    /\ reader # "exit"
    /\ debounce.pc = "window"
    /\ events # <<>>
    /\ debounce' = [debounce EXCEPT !.pending = CollectPaths(@, Head(events).paths),
                                    !.remaining = DeadlineAfterEvent(@),
                                    !.windows[Len(debounce.windows)] =
                                        Append(@, Head(events).paths)]
    /\ events' = Tail(events)
    /\ UNCHANGED <<stdin, reader, curLen, tasks, writer, stdout, fsLeft, stderr, sinkOpen>>
    /\ UNCHANGED handlerVars

\* time passes while the window is open; the timer fires when it is due
Tick ==
    /\ reader # "exit"
    /\ debounce.pc = "window"
    /\ debounce.remaining > 0
    /\ LET d == IF TickMs < debounce.remaining THEN TickMs ELSE debounce.remaining
       IN  debounce' = [debounce EXCEPT !.remaining = @ - d, !.elapsed = @ + d]
    /\ UNCHANGED <<stdin, reader, curLen, tasks, writer, stdout, events, fsLeft, stderr, sinkOpen>>
    /\ UNCHANGED handlerVars

\* phase 2, select! arm sleep_until(deadline); phase 3 starts when paths are pending
DebounceExpire ==
    /\ reader # "exit"
    /\ debounce.pc = "window"
    /\ debounce.remaining = 0
    /\ debounce' = [debounce EXCEPT !.pc = IF debounce.pending # {} THEN "send" ELSE "recv"]
    /\ UNCHANGED <<stdin, reader, curLen, tasks, writer, stdout, events, fsLeft, stderr, sinkOpen>>
    /\ UNCHANGED handlerVars

Notification(paths) == [method |-> "fs.changed", paths |-> paths]

Diagnostic == "Failed to send fs.changed notification"

\* send_notification returns Err: its guard is dropped, debounce_loop prints the
\* error with eprintln! and breaks
NotifyFailed ==
    /\ writer' = NoHolder
    /\ stderr' = Append(stderr, Diagnostic)
    /\ debounce' = [debounce EXCEPT !.pc = "stopped"]

\* send_notification: writer.lock().await
NotifyLock ==
    /\ reader # "exit"
    /\ debounce.pc = "send"
    /\ WriterAvailable(NotifyOwner(debounce.sent + 1))
    /\ writer' = NotifyOwner(debounce.sent + 1)
    /\ debounce' = [debounce EXCEPT !.pc = "locked"]
    /\ UNCHANGED <<stdin, reader, curLen, tasks, stdout, events, fsLeft, stderr, sinkOpen>>
    /\ UNCHANGED handlerVars

\* w.write_all(&len_bytes).await?  A write into the BufWriter can fail only when
\* it has to reach a pipe nobody reads any more.
NotifyWriteLen ==
    /\ reader # "exit"
    /\ debounce.pc = "locked"
    /\ \E fails \in BOOLEAN :
          IF fails /\ ~sinkOpen
          THEN NotifyFailed /\ UNCHANGED stdout
          ELSE /\ stdout' = Append(stdout, Chunk(NotifyOwner(debounce.sent + 1), "len",
                                                 Notification(debounce.pending)))
               /\ debounce' = [debounce EXCEPT !.pc = "wrote_len"]
               /\ UNCHANGED <<writer, stderr>>
    /\ UNCHANGED <<stdin, reader, curLen, tasks, events, fsLeft, sinkOpen>>
    /\ UNCHANGED handlerVars

\* w.write_all(&bytes).await?
NotifyWritePayload ==
    /\ reader # "exit"
    /\ debounce.pc = "wrote_len"
    /\ \E fails \in BOOLEAN :
          IF fails /\ ~sinkOpen
          THEN NotifyFailed /\ UNCHANGED stdout
          ELSE /\ stdout' = Append(stdout, Chunk(NotifyOwner(debounce.sent + 1), "payload",
                                                 Notification(debounce.pending)))
               /\ debounce' = [debounce EXCEPT !.pc = "wrote_payload"]
               /\ UNCHANGED <<writer, stderr>>
    /\ UNCHANGED <<stdin, reader, curLen, tasks, events, fsLeft, sinkOpen>>
    /\ UNCHANGED handlerVars

\* w.flush().await?, which has to reach the pipe; then the guard is dropped on
\* return and the loop starts over with no pending paths
NotifyFlush ==
    /\ reader # "exit"
    /\ debounce.pc = "wrote_payload"
    /\ IF ~sinkOpen
       THEN NotifyFailed
       ELSE /\ writer' = NoHolder
            /\ debounce' = [debounce EXCEPT !.pc = "recv", !.pending = {},
                                            !.sent = debounce.sent + 1]
            /\ UNCHANGED stderr
    /\ UNCHANGED <<stdin, reader, curLen, tasks, stdout, events, fsLeft, sinkOpen>>
    /\ UNCHANGED handlerVars

\* the client stops reading the stdout pipe
SinkBreak ==
    /\ reader # "exit"
    /\ sinkOpen
    /\ sinkOpen' = FALSE
    /\ UNCHANGED <<stdin, reader, curLen, tasks, writer, stdout, events, fsLeft, debounce, stderr>>
    /\ UNCHANGED handlerVars

----------------------------------------------------------------------------
(* The pipe-backed process table (handlers/process.rs) *)

SIGKILL == 9
SIGTERM == 15
\* a negative signal number: libc::kill fails with EINVAL
BadSignal == 0 - 1

Signals == { SIGKILL, SIGTERM, BadSignal }

CallIds == 1..MaxCalls

\* keys a client may name: every key that can have been issued, and one that cannot
ClientKeys == 1..(MaxCalls + 1)

EmptyMap == [k \in {} |-> 0]

Insert(map, key, value) ==
    [k \in DOMAIN map \cup {key} |-> IF k = key THEN value ELSE map[k]]

Remove(map, key) == [k \in DOMAIN map \ {key} |-> map[k]]

\* ExitStatus: code = {c} after exit(c), signal = {n} after death by signal n
NoStatus == [code |-> {}, signal |-> {}]
Exited(c) == [code |-> {c}, signal |-> {}]
Signaled(n) == [code |-> {}, signal |-> {n}]

\* a tokio::process::Child with piped stdio
\*   alive  : the OS process has not terminated
\*   reaped : try_wait has returned its status, after which id() is None
NewChild == [alive |-> TRUE, status |-> NoStatus, reaped |-> FALSE, stdinOpen |-> TRUE]

\* what a handler returned.  exit_code is {} for nil and {c} for the integer c;
\* output is {} for nil; entries is the array returned by list / list_pty
NoReturn == [ok |-> FALSE, code |-> 0, key |-> 0, exited |-> FALSE, exit_code |-> {},
             output |-> {}, entries |-> EmptyMap]
Ok(key) == [NoReturn EXCEPT !.ok = TRUE, !.key = key]
Err(code) == [NoReturn EXCEPT !.code = code]
ReadResult(exited, exit_code) ==
    [NoReturn EXCEPT !.ok = TRUE, !.exited = exited, !.exit_code = exit_code]

\* timeout_ms of a read request: absent (0), or a wait in milliseconds
Timeouts == { 0, 100 }

\* try_read_async: Duration::from_millis(1), the longest one stream is awaited
ProbeMs == 1

\* what a PTY handler leaves outside the table when it returns: a forked child
\* that no entry refers to ({} for none), and whether its master descriptor is
\* still open in the agent
NothingLeft == [child |-> {}, masterOpen |-> FALSE]

\* status  : the ExitStatus of the child of a process.run call
\* timeout : the timeout_ms the client sent with a process.read
\* waited  : the milliseconds a process.read spent awaiting the two streams
\* polled  : the master descriptor as the last libc::poll of a waiting
\*           read_pty found it ("none" before any poll)
\* target  : the pid kill_pty or close_pty called kill(2) with: that of a child
\*           not yet waited for ("child"), or that of a child waitpid has
\*           already returned ("reaped"), a pid the OS may have given away
\* left    : what start_pty, kill_pty or close_pty left outside the table
IdleCall == [op |-> "none", pc |-> "idle", key |-> 0, ret |-> NoReturn, status |-> NoStatus,
             timeout |-> 0, waited |-> 0, polled |-> "none", target |-> "none",
             left |-> NothingLeft]

\* a faulty allocator that hands out the lowest key not in the table
LowestFreeKey == CHOOSE k \in 1..(MaxCalls + 1) :
                    /\ k \notin DOMAIN processMap
                    /\ \A j \in 1..(k - 1) : j \in DOMAIN processMap

\* get_next_pid: let current = *pid
CurrentKey == pidCounter

\* get_next_pid: *pid += 1.  The counter is a u32; it cannot wrap before 2^32 - 1
\* keys have been issued, which is beyond every run considered here.
CounterAfter == pidCounter + 1

\* child.try_wait().ok().flatten() on an entry: the status once the child is dead
TryWait(child) == IF child.alive THEN child ELSE [child EXCEPT !.reaped = TRUE]

\* what a signal does to a child that is still running
Deliver(child, sig) ==
    IF child.alive /\ sig \in {SIGKILL, SIGTERM}
    THEN [child EXCEPT !.alive = FALSE, !.status = Signaled(sig)]
    ELSE child

\* start: cmd.spawn()
StartSpawn(c) ==
    /\ calls[c].pc = "idle"
    /\ \E spawned \in BOOLEAN :
          calls' = [calls EXCEPT ![c] =
                      IF spawned THEN [@ EXCEPT !.op = "start", !.pc = "alloc"]
                      ELSE [@ EXCEPT !.op = "start", !.pc = "done", !.ret = Err(PROCESS_ERROR)]]
    /\ UNCHANGED <<pidCounter, processMap, mapLock, issued>>
    /\ UNCHANGED outsidePipeVars

\* start: get_next_pid().await
StartAlloc(c) ==
    /\ calls[c].pc = "alloc"
    /\ calls' = [calls EXCEPT ![c] = [@ EXCEPT !.pc = "insert", !.key = CurrentKey]]
    /\ issued' = Append(issued, CurrentKey)
    /\ pidCounter' = CounterAfter
    /\ UNCHANGED <<processMap, mapLock>>
    /\ UNCHANGED outsidePipeVars

\* start: get_process_map().lock().await.insert(pid, managed) and the return
StartInsert(c) ==
    /\ calls[c].pc = "insert"
    /\ mapLock = 0
    /\ processMap' = Insert(processMap, calls[c].key, NewChild)
    /\ calls' = [calls EXCEPT ![c] = [@ EXCEPT !.pc = "done", !.ret = Ok(calls[c].key)]]
    /\ UNCHANGED <<pidCounter, mapLock, issued>>
    /\ UNCHANGED outsidePipeVars

\* kill: nothing awaits between taking the table lock and the return
KillResult(key, sig) ==
    IF key \notin DOMAIN processMap THEN Err(PROCESS_ERROR)
    ELSE IF processMap[key].reaped THEN Err(PROCESS_ERROR)     \* child.id() is None
    ELSE IF sig = BadSignal THEN Err(PROCESS_ERROR)           \* libc::kill != 0
    ELSE Ok(key)

KillMap(key, sig) ==
    IF ~KillResult(key, sig).ok THEN processMap
    ELSE IF sig = SIGKILL THEN Remove(processMap, key)
    ELSE [processMap EXCEPT ![key] = Deliver(@, sig)]

Kill(c, key, sig) ==
    /\ calls[c].pc = "idle"
    /\ mapLock = 0
    /\ processMap' = KillMap(key, sig)
    /\ calls' = [calls EXCEPT ![c] =
                    [@ EXCEPT !.op = "kill", !.pc = "done", !.key = key,
                              !.ret = KillResult(key, sig)]]
    /\ UNCHANGED <<pidCounter, mapLock, issued>>
    /\ UNCHANGED outsidePipeVars

\* write: the table lock is taken and kept across stdin.write_all().await
WriteBegin(c, key) ==
    /\ calls[c].pc = "idle"
    /\ mapLock = 0
    /\ IF key \notin DOMAIN processMap
       THEN /\ calls' = [calls EXCEPT ![c] =
                           [@ EXCEPT !.op = "write", !.pc = "done", !.key = key,
                                     !.ret = Err(PROCESS_ERROR)]]
            /\ UNCHANGED mapLock
       ELSE IF ~processMap[key].stdinOpen
       THEN \* child.stdin is None: the write is skipped and reported as done
            /\ calls' = [calls EXCEPT ![c] =
                           [@ EXCEPT !.op = "write", !.pc = "done", !.key = key,
                                     !.ret = Ok(key)]]
            /\ UNCHANGED mapLock
       ELSE /\ calls' = [calls EXCEPT ![c] =
                           [@ EXCEPT !.op = "write", !.pc = "writing", !.key = key]]
            /\ mapLock' = c
    /\ UNCHANGED <<pidCounter, processMap, issued>>
    /\ UNCHANGED outsidePipeVars

\* write_all returns: the pipe took the data, or the reading end is gone (EPIPE)
WriteEnd(c) ==
    /\ calls[c].pc = "writing"
    /\ calls' = [calls EXCEPT ![c] =
                    [@ EXCEPT !.pc = "done",
                              !.ret = IF processMap[calls[c].key].alive THEN Ok(calls[c].key)
                                      ELSE Err(PROCESS_ERROR)]]
    /\ mapLock' = 0
    /\ UNCHANGED <<pidCounter, processMap, issued>>
    /\ UNCHANGED outsidePipeVars

\* read: the table lock is taken and kept across both try_read_async calls.
\* Params has the fields pid and max_bytes only: a timeout_ms in the request is
\* dropped by the deserializer and reaches no code.
ReadBegin(c, key) ==
    /\ calls[c].pc = "idle"
    /\ mapLock = 0
    /\ \E timeout_ms \in Timeouts :
          IF key \notin DOMAIN processMap
          THEN /\ calls' = [calls EXCEPT ![c] =
                              [@ EXCEPT !.op = "read", !.pc = "done", !.key = key,
                                        !.timeout = timeout_ms,
                                        !.ret = Err(PROCESS_ERROR)]]
               /\ UNCHANGED mapLock
          ELSE /\ calls' = [calls EXCEPT ![c] =
                              [@ EXCEPT !.op = "read", !.pc = "reading", !.key = key,
                                        !.timeout = timeout_ms]]
               /\ mapLock' = c
    /\ UNCHANGED <<pidCounter, processMap, issued>>
    /\ UNCHANGED outsidePipeVars

\* try_read_async on one stream: the time it takes.  Data that is there is
\* returned at once; without data the read of a live child's pipe ends with the
\* 1 ms timeout, and that of an exited child's pipe with EOF.
ProbeTime(child, got) == IF got \/ ~child.alive THEN 0 ELSE ProbeMs

\* read: the stdout and stderr data as the result reports them ({} for nil)
ReadOutput(got_out, got_err) ==
    (IF got_out THEN {"stdout"} ELSE {}) \cup (IF got_err THEN {"stderr"} ELSE {})

\* read: both try_read_async calls, try_wait, the result object, and the guard
\* dropped on return
ReadEnd(c) ==
    /\ calls[c].pc = "reading"
    /\ processMap' = [processMap EXCEPT ![calls[c].key] = TryWait(@)]
    /\ \E got_out \in BOOLEAN : \E got_err \in BOOLEAN :
          calls' = [calls EXCEPT ![c] =
                      [@ EXCEPT !.pc = "done",
                                !.waited = ProbeTime(processMap[calls[c].key], got_out)
                                           + ProbeTime(processMap[calls[c].key], got_err),
                                !.ret = [ReadResult(~processMap[calls[c].key].alive,
                                                    processMap[calls[c].key].status.code)
                                            EXCEPT !.output = ReadOutput(got_out, got_err)]]]
    /\ mapLock' = 0
    /\ UNCHANGED <<pidCounter, issued>>
    /\ UNCHANGED outsidePipeVars

\* close_stdin: managed.child.stdin.take()
CloseStdin(c, key) ==
    /\ calls[c].pc = "idle"
    /\ mapLock = 0
    /\ processMap' = IF key \in DOMAIN processMap
                     THEN [processMap EXCEPT ![key].stdinOpen = FALSE]
                     ELSE processMap
    /\ calls' = [calls EXCEPT ![c] =
                    [@ EXCEPT !.op = "close_stdin", !.pc = "done", !.key = key,
                              !.ret = IF key \in DOMAIN processMap THEN Ok(key)
                                      ELSE Err(PROCESS_ERROR)]]
    /\ UNCHANGED <<pidCounter, mapLock, issued>>
    /\ UNCHANGED outsidePipeVars

\* list: "exited": exited.is_some(), "exit_code": exited.and_then(|s| s.code())
ListEntry(child) == [exited |-> ~child.alive, exit_code |-> child.status.code]

\* list: try_wait on every entry under the table lock
List(c) ==
    /\ calls[c].pc = "idle"
    /\ mapLock = 0
    /\ processMap' = [k \in DOMAIN processMap |-> TryWait(processMap[k])]
    /\ calls' = [calls EXCEPT ![c] =
                    [@ EXCEPT !.op = "list", !.pc = "done",
                              !.ret = [Ok(0) EXCEPT !.entries =
                                         [k \in DOMAIN processMap |-> ListEntry(processMap[k])]]]]
    /\ UNCHANGED <<pidCounter, mapLock, issued>>
    /\ UNCHANGED outsidePipeVars

\* the ways a child of process.run can end: exit(0), exit(1), or death by signal
RunStatuses == { Exited(0), Exited(1), Signaled(SIGKILL), Signaled(SIGTERM) }

\* run: exit_code: output.status.code().unwrap_or(-1)
RunExitCode(status) == IF status.code # {} THEN status.code ELSE { 0 - 1 }

\* run: cmd.spawn()
RunSpawn(c) ==
    /\ calls[c].pc = "idle"
    /\ \E spawned \in BOOLEAN :
          calls' = [calls EXCEPT ![c] =
                      IF spawned THEN [@ EXCEPT !.op = "run", !.pc = "running"]
                      ELSE [@ EXCEPT !.op = "run", !.pc = "done", !.ret = Err(PROCESS_ERROR)]]
    /\ UNCHANGED <<pidCounter, processMap, mapLock, issued>>
    /\ UNCHANGED outsidePipeVars

\* run: child.wait_with_output().await and the ProcessResult
RunWait(c) ==
    /\ calls[c].pc = "running"
    /\ \E status \in RunStatuses :
          calls' = [calls EXCEPT ![c] =
                      [@ EXCEPT !.pc = "done", !.status = status,
                                !.ret = ReadResult(TRUE, RunExitCode(status))]]
    /\ UNCHANGED <<pidCounter, processMap, mapLock, issued>>
    /\ UNCHANGED outsidePipeVars

\* a managed child terminates on its own
ChildExit(key, code) ==
    /\ key \in DOMAIN processMap
    /\ processMap[key].alive
    /\ processMap' = [processMap EXCEPT ![key] = [@ EXCEPT !.alive = FALSE, !.status = Exited(code)]]
    /\ UNCHANGED <<pidCounter, mapLock, calls, issued>>
    /\ UNCHANGED outsidePipeVars

----------------------------------------------------------------------------
(* The PTY-backed process table (handlers/process.rs) *)

\* PTY_PID_COUNTER starts here
PtyFirstKey == 10000

\* keys a client may name: every PTY key that can have been issued, and one
\* that cannot
ClientPtyKeys == PtyFirstKey..(PtyFirstKey + MaxCalls)

\* a ManagedPtyProcess: the child and the cached exit_status ({} for None)
\*   reaped : waitpid has returned the child's status, the pid is gone
NewPtyChild == [alive |-> TRUE, status |-> NoStatus, reaped |-> FALSE, exit_status |-> {}]

\* check_exit_status: Exited(_, code) gives code, Signaled(_, signal, _) gives 128 + signal
WaitCode(status) ==
    IF status.code # {} THEN status.code ELSE { 128 + n : n \in status.signal }

\* check_exit_status: the entry afterwards (the status is cached once harvested)
Harvest(m) ==
    IF m.exit_status # {} \/ m.alive \/ m.reaped THEN m
    ELSE [m EXCEPT !.reaped = TRUE, !.exit_status = WaitCode(m.status)]

\* a faulty check that reports what waitpid returns now and ignores the cache
HarvestResultFresh(m) ==
    [exited |-> ~m.alive /\ ~m.reaped,
     exit_code |-> IF ~m.alive /\ ~m.reaped THEN WaitCode(m.status) ELSE {}]

\* check_exit_status: the (exited, exit_code) it returns
HarvestResult(m) ==
    [exited |-> Harvest(m).exit_status # {}, exit_code |-> Harvest(m).exit_status]

PtyReadResult(output, exited, exit_code) ==
    [NoReturn EXCEPT !.ok = TRUE, !.output = output, !.exited = exited, !.exit_code = exit_code]

\* read_pty on a key that is not in the table
MissingResult == PtyReadResult({}, TRUE, {})

\* a faulty removal that forgets to close the master descriptor
LeakMaster(count, key) == count

\* dropping a ManagedPtyProcess drops its AsyncFd<OwnedFd>, which closes the master
DropMaster(count, key) == [count EXCEPT ![key] = @ + 1]

\* get_next_pty_pid: let current = *pid
CurrentPtyKey == ptyCounter

\* get_next_pty_pid: *pid += 1
PtyCounterAfter == ptyCounter + 1

\* the steps of start_pty that can fail: openpty, ttyname_r, set_window_size,
\* CString::new and fork inside do_fork_exec, then set_fd_nonblocking and
\* AsyncFd::new
StartPtyFailures ==
    { "none", "openpty", "ttyname", "winsize", "cstring", "fork", "nonblocking", "register" }

\* the error start_pty returns for a failing step
StartPtyError(failure) ==
    IF failure = "cstring" THEN Err(INVALID_PARAMS) ELSE Err(PROCESS_ERROR)

\* what start_pty leaves behind when it returns at a failing step.  Inside
\* do_fork_exec master and slave are OwnedFds, closed by the early return.
\* After it the child runs, the slave is closed and the master is a raw
\* descriptor (mem::forget): an error of set_fd_nonblocking returns with the
\* master open, an error of AsyncFd::new drops the OwnedFd it was given.
LeftBy(failure) ==
    CASE failure = "nonblocking" -> [child |-> { NewPtyChild }, masterOpen |-> TRUE]
      [] failure = "register" -> [child |-> { NewPtyChild }, masterOpen |-> FALSE]
      [] OTHER -> NothingLeft

\* start_pty: spawn_blocking(do_fork_exec), set_fd_nonblocking, AsyncFd::new
PtyFork(c) ==
    /\ calls[c].pc = "idle"
    /\ \E failure \in StartPtyFailures :
          calls' = [calls EXCEPT ![c] =
                      IF failure = "none" THEN [@ EXCEPT !.op = "start_pty", !.pc = "pty_alloc"]
                      ELSE [@ EXCEPT !.op = "start_pty", !.pc = "done",
                                     !.ret = StartPtyError(failure),
                                     !.left = LeftBy(failure)]]
    /\ UNCHANGED <<pidCounter, processMap, mapLock, issued>>
    /\ UNCHANGED <<ptyVars, transportVars, watchVars, leafVars>>

\* start_pty: get_next_pty_pid().await
PtyAlloc(c) ==
    /\ calls[c].pc = "pty_alloc"
    /\ calls' = [calls EXCEPT ![c] = [@ EXCEPT !.pc = "pty_insert", !.key = CurrentPtyKey]]
    /\ ptyIssued' = Append(ptyIssued, CurrentPtyKey)
    /\ ptyCounter' = PtyCounterAfter
    /\ UNCHANGED <<pidCounter, processMap, mapLock, issued>>
    /\ UNCHANGED <<ptyMap, ptyLock, closed>>
    /\ UNCHANGED <<transportVars, watchVars, leafVars>>

\* start_pty: get_pty_process_map().lock().await.insert(our_pid, managed) and the return
PtyInsert(c) ==
    /\ calls[c].pc = "pty_insert"
    /\ ptyLock = 0
    /\ ptyMap' = Insert(ptyMap, calls[c].key, NewPtyChild)
    /\ calls' = [calls EXCEPT ![c] = [@ EXCEPT !.pc = "done", !.ret = Ok(calls[c].key)]]
    /\ UNCHANGED <<pidCounter, processMap, mapLock, issued>>
    /\ UNCHANGED <<ptyCounter, ptyLock, closed, ptyIssued>>
    /\ UNCHANGED <<transportVars, watchVars, leafVars>>

\* read_pty up to the end of the first locked block.
\*   fits : vec![0u8; max_bytes] can be allocated (it panics with "capacity
\*          overflow" when max_bytes exceeds isize::MAX), before any lookup
\*   got  : libc::read returned n > 0
ReadPtyBegin(c, key, timeout, fits) ==
    /\ calls[c].pc = "idle"
    /\ IF ~fits
       THEN /\ calls' = [calls EXCEPT ![c] =
                           [@ EXCEPT !.op = "read_pty", !.pc = "panicked", !.key = key]]
            /\ UNCHANGED ptyMap
       ELSE /\ ptyLock = 0
            /\ IF key \notin DOMAIN ptyMap
               THEN /\ calls' = [calls EXCEPT ![c] =
                                   [@ EXCEPT !.op = "read_pty", !.pc = "done", !.key = key,
                                             !.ret = MissingResult]]
                    /\ UNCHANGED ptyMap
               ELSE \E got \in BOOLEAN :
                       IF got \/ timeout = 0
                       THEN /\ calls' = [calls EXCEPT ![c] =
                                           [@ EXCEPT !.op = "read_pty", !.pc = "recheck",
                                                     !.key = key,
                                                     !.ret = PtyReadResult(
                                                                IF got THEN {"data"} ELSE {},
                                                                FALSE, {})]]
                            /\ UNCHANGED ptyMap
                       ELSE /\ ptyMap' = [ptyMap EXCEPT ![key] = Harvest(@)]
                            /\ calls' = [calls EXCEPT ![c] =
                                           IF HarvestResult(ptyMap[key]).exited
                                           THEN [@ EXCEPT !.op = "read_pty", !.pc = "done",
                                                          !.key = key,
                                                          !.ret = PtyReadResult({}, TRUE,
                                                                     HarvestResult(ptyMap[key]).exit_code)]
                                           ELSE [@ EXCEPT !.op = "read_pty", !.pc = "waiting",
                                                          !.key = key]]
    /\ stderr' = Unwound(~fits)
    /\ UNCHANGED <<pidCounter, processMap, mapLock, issued>>
    /\ UNCHANGED <<ptyCounter, ptyLock, closed, ptyIssued>>
    /\ UNCHANGED <<stdin, reader, curLen, tasks, writer, stdout, events, fsLeft, debounce,
                   sinkOpen>>
    /\ UNCHANGED <<watchVars, leafVars>>

\* read_pty: the second locked block, taken when the first produced a result
\* with exited = false
ReadPtyRecheck(c) ==
    /\ calls[c].pc = "recheck"
    /\ ptyLock = 0
    /\ IF calls[c].key \in DOMAIN ptyMap
       THEN /\ ptyMap' = [ptyMap EXCEPT ![calls[c].key] = Harvest(@)]
            /\ calls' = [calls EXCEPT ![c] =
                           [@ EXCEPT !.pc = "done",
                                     !.ret = PtyReadResult(calls[c].ret.output,
                                                HarvestResult(ptyMap[calls[c].key]).exited,
                                                HarvestResult(ptyMap[calls[c].key]).exit_code)]]
       ELSE /\ UNCHANGED ptyMap
            /\ calls' = [calls EXCEPT ![c] =
                           [@ EXCEPT !.pc = "done",
                                     !.ret = PtyReadResult(calls[c].ret.output, TRUE, {})]]
    /\ UNCHANGED <<pidCounter, processMap, mapLock, issued>>
    /\ UNCHANGED <<ptyCounter, ptyLock, closed, ptyIssued>>
    /\ UNCHANGED <<transportVars, watchVars, leafVars>>

\* wait_for_pty_readable: the raw descriptor number is copied out of the entry
\* under the table lock, which is released before the polling starts.  Without
\* an entry the wait ends at once.
WaitLookup(c) ==
    /\ calls[c].pc = "waiting"
    /\ ptyLock = 0
    /\ calls[c].key \in DOMAIN ptyMap
    /\ calls' = [calls EXCEPT ![c] = [@ EXCEPT !.pc = "polling"]]
    /\ UNCHANGED <<pidCounter, processMap, mapLock, issued>>
    /\ UNCHANGED <<ptyVars, transportVars, watchVars, leafVars>>

\* the descriptor number of an entry: open while the entry is in the table,
\* closed (and free to be handed out again) once the entry has been dropped
MasterOf(key) == IF key \in DOMAIN ptyMap THEN "open" ELSE "closed"

\* wait_for_pty_readable: one libc::poll(&mut pollfd, 1, 100) on the copied
\* descriptor number, run by spawn_blocking with no lock held
PtyPoll(c) ==
    /\ calls[c].pc = "polling"
    /\ calls' = [calls EXCEPT ![c] = [@ EXCEPT !.polled = MasterOf(calls[c].key)]]
    /\ UNCHANGED <<pidCounter, processMap, mapLock, issued>>
    /\ UNCHANGED <<ptyVars, transportVars, watchVars, leafVars>>

\* read_pty after tokio::time::timeout(wait_for_pty_readable): the master became
\* readable (ready), the entry was found missing, or the timeout passed
ReadPtyWake(c) ==
    /\ calls[c].pc \in { "waiting", "polling" }
    /\ ptyLock = 0
    /\ IF calls[c].key \notin DOMAIN ptyMap
       THEN /\ UNCHANGED ptyMap
            /\ calls' = [calls EXCEPT ![c] = [@ EXCEPT !.pc = "done", !.ret = MissingResult]]
       ELSE /\ ptyMap' = [ptyMap EXCEPT ![calls[c].key] = Harvest(@)]
            /\ \E ready \in BOOLEAN :
                  calls' = [calls EXCEPT ![c] =
                              [@ EXCEPT !.pc = "done",
                                        !.ret = PtyReadResult(
                                                   IF ready THEN {"data"} ELSE {},
                                                   HarvestResult(ptyMap[calls[c].key]).exited,
                                                   HarvestResult(ptyMap[calls[c].key]).exit_code)]]
    /\ UNCHANGED <<pidCounter, processMap, mapLock, issued>>
    /\ UNCHANGED <<ptyCounter, ptyLock, closed, ptyIssued>>
    /\ UNCHANGED <<transportVars, watchVars, leafVars>>

\* write_pty: the table lock is taken and kept across async_fd.ready(WRITABLE).await
WritePtyBegin(c, key) ==
    /\ calls[c].pc = "idle"
    /\ ptyLock = 0
    /\ IF key \notin DOMAIN ptyMap
       THEN /\ calls' = [calls EXCEPT ![c] =
                           [@ EXCEPT !.op = "write_pty", !.pc = "done", !.key = key,
                                     !.ret = Err(PROCESS_ERROR)]]
            /\ UNCHANGED ptyLock
       ELSE /\ calls' = [calls EXCEPT ![c] =
                           [@ EXCEPT !.op = "write_pty", !.pc = "pty_writing", !.key = key]]
            /\ ptyLock' = c
    /\ UNCHANGED <<pidCounter, processMap, mapLock, issued>>
    /\ UNCHANGED <<ptyCounter, ptyMap, closed, ptyIssued>>
    /\ UNCHANGED <<transportVars, watchVars, leafVars>>

\* write_pty: the master became writable; libc::write and the return
WritePtyEnd(c) ==
    /\ calls[c].pc = "pty_writing"
    /\ \E wrote \in BOOLEAN :
          calls' = [calls EXCEPT ![c] =
                      [@ EXCEPT !.pc = "done",
                                !.ret = IF wrote THEN Ok(calls[c].key) ELSE Err(PROCESS_ERROR)]]
    /\ ptyLock' = 0
    /\ UNCHANGED <<pidCounter, processMap, mapLock, issued>>
    /\ UNCHANGED <<ptyCounter, ptyMap, closed, ptyIssued>>
    /\ UNCHANGED <<transportVars, watchVars, leafVars>>

\* resize_pty: lookup, TIOCSWINSZ (which may fail) and SIGWINCH
ResizePty(c, key) ==
    /\ calls[c].pc = "idle"
    /\ ptyLock = 0
    /\ \E resized \in BOOLEAN :
          calls' = [calls EXCEPT ![c] =
                      [@ EXCEPT !.op = "resize_pty", !.pc = "done", !.key = key,
                                !.ret = IF key \in DOMAIN ptyMap /\ resized THEN Ok(key)
                                        ELSE Err(PROCESS_ERROR)]]
    /\ UNCHANGED <<pidCounter, processMap, mapLock, issued>>
    /\ UNCHANGED <<ptyVars, transportVars, watchVars, leafVars>>

\* kill_pty: the lookup, Signal::try_from, nix::sys::signal::kill (ESRCH once the
\* child has been reaped)
KillPtyResult(key, sig) ==
    IF key \notin DOMAIN ptyMap THEN Err(PROCESS_ERROR)
    ELSE IF sig = BadSignal THEN Err(INVALID_PARAMS)
    ELSE IF ptyMap[key].reaped THEN Err(PROCESS_ERROR)
    ELSE Ok(key)

\* kill_pty: the entry is removed after a delivered SIGKILL
KillPtyRemoves(key, sig) == KillPtyResult(key, sig).ok /\ sig = SIGKILL

\* the pid an entry hands to kill(2): managed.child_pid, whether or not
\* waitpid has already returned that child
PidOf(m) == IF m.reaped THEN "reaped" ELSE "child"

\* kill_pty: nix::sys::signal::kill(managed.child_pid, signal) is reached with
\* every entry and every valid signal
KillPtyTarget(key, sig) ==
    IF key \in DOMAIN ptyMap /\ sig # BadSignal THEN PidOf(ptyMap[key]) ELSE "none"

\* close_pty: nix::sys::signal::kill(managed.child_pid, Signal::SIGKILL) is
\* reached with every entry
ClosePtyTarget(key) == IF key \in DOMAIN ptyMap THEN PidOf(ptyMap[key]) ELSE "none"

\* the child of an entry that kill_pty or close_pty has removed after SIGKILL,
\* with its master closed by the drop of the entry: nothing refers to its pid
\* any more
Removed(m) == [child |-> { Deliver(m, SIGKILL) }, masterOpen |-> FALSE]

KillPtyMap(key, sig) ==
    IF ~KillPtyResult(key, sig).ok THEN ptyMap
    ELSE IF sig = SIGKILL THEN Remove(ptyMap, key)
    ELSE [ptyMap EXCEPT ![key] = Deliver(@, sig)]

KillPty(c, key, sig) ==
    /\ calls[c].pc = "idle"
    /\ ptyLock = 0
    /\ ptyMap' = KillPtyMap(key, sig)
    /\ closed' = IF KillPtyRemoves(key, sig) THEN DropMaster(closed, key) ELSE closed
    /\ calls' = [calls EXCEPT ![c] =
                    [@ EXCEPT !.op = "kill_pty", !.pc = "done", !.key = key,
                              !.ret = KillPtyResult(key, sig),
                              !.target = KillPtyTarget(key, sig),
                              !.left = IF KillPtyRemoves(key, sig) THEN Removed(ptyMap[key])
                                       ELSE NothingLeft]]
    /\ UNCHANGED <<pidCounter, processMap, mapLock, issued>>
    /\ UNCHANGED <<ptyCounter, ptyLock, ptyIssued>>
    /\ UNCHANGED <<transportVars, watchVars, leafVars>>

\* close_pty: processes.remove(&pid), SIGKILL to the child, the entry dropped
ClosePty(c, key) ==
    /\ calls[c].pc = "idle"
    /\ ptyLock = 0
    /\ ptyMap' = IF key \in DOMAIN ptyMap THEN Remove(ptyMap, key) ELSE ptyMap
    /\ closed' = IF key \in DOMAIN ptyMap THEN DropMaster(closed, key) ELSE closed
    /\ calls' = [calls EXCEPT ![c] =
                    [@ EXCEPT !.op = "close_pty", !.pc = "done", !.key = key,
                              !.ret = IF key \in DOMAIN ptyMap THEN Ok(key)
                                      ELSE Err(PROCESS_ERROR),
                              !.target = ClosePtyTarget(key),
                              !.left = IF key \in DOMAIN ptyMap THEN Removed(ptyMap[key])
                                       ELSE NothingLeft]]
    /\ UNCHANGED <<pidCounter, processMap, mapLock, issued>>
    /\ UNCHANGED <<ptyCounter, ptyLock, ptyIssued>>
    /\ UNCHANGED <<transportVars, watchVars, leafVars>>

\* list_pty: the exit status of every entry is harvested under the table lock
ListPty(c) ==
    /\ calls[c].pc = "idle"
    /\ ptyLock = 0
    /\ ptyMap' = [k \in DOMAIN ptyMap |-> Harvest(ptyMap[k])]
    /\ calls' = [calls EXCEPT ![c] =
                    [@ EXCEPT !.op = "list_pty", !.pc = "done",
                              !.ret = [Ok(0) EXCEPT !.entries =
                                         [k \in DOMAIN ptyMap |-> HarvestResult(ptyMap[k])]]]]
    /\ UNCHANGED <<pidCounter, processMap, mapLock, issued>>
    /\ UNCHANGED <<ptyCounter, ptyLock, closed, ptyIssued>>
    /\ UNCHANGED <<transportVars, watchVars, leafVars>>

\* a PTY child terminates on its own
PtyChildExit(key, code) ==
    /\ key \in DOMAIN ptyMap
    /\ ptyMap[key].alive
    /\ ptyMap' = [ptyMap EXCEPT ![key] = [@ EXCEPT !.alive = FALSE, !.status = Exited(code)]]
    /\ UNCHANGED <<procVars, transportVars, watchVars, leafVars>>
    /\ UNCHANGED <<ptyCounter, ptyLock, closed, ptyIssued>>

\* process.start followed by process.kill with SIGKILL on the returned key, as
\* often as it takes to use up every key below PtyFirstKey: each round advances
\* PID_COUNTER by one and leaves the table as it was
StartKillRounds ==
    /\ pidCounter = 1
    /\ mapLock = 0
    /\ \A c \in CallIds : calls[c].op # "start"
    /\ pidCounter' = PtyFirstKey
    /\ UNCHANGED <<processMap, mapLock, calls, issued>>
    /\ UNCHANGED <<ptyVars, transportVars, watchVars, leafVars>>

----------------------------------------------------------------------------
(* The watch registry (watcher.rs).  A path is the sequence of its           *)
(* components, "/" first when it is absolute.                                *)

MaxWatchCalls == 3      \* watch.* requests handled in one run

WCallIds == 1..MaxWatchCalls

DirW == << "/", "tmp", "W" >>
DirV == << "/", "srv", "W" >>
\* a symbolic link to DirW
LinkW == << "/", "tmp", "link" >>
\* DirW named relative to the working directory /tmp
RelW == << "W" >>

HostDirs == { DirW, DirV }

ClientPaths == { DirW, DirV, LinkW, RelW }

\* the absolute, symlink-free path a client path leads to
Resolve(p) == IF p \in { LinkW, RelW } THEN DirW ELSE p

\* Path::canonicalize: fails when the target does not exist
Canonicalize(p) == [ok |-> Resolve(p) \in dirs, path |-> Resolve(p)]

\* Path::ends_with: whole components, compared from the end
EndsWith(a, b) ==
    /\ Len(b) <= Len(a)
    /\ SubSeq(a, Len(a) - Len(b) + 1, Len(a)) = b

\* unwatch: path.canonicalize().unwrap_or_else(|_| path.to_path_buf())
CanonicalOrRaw(p) == IF Canonicalize(p).ok THEN Canonicalize(p).path ELSE p

\* unwatch: the stored paths the lookup may return (an exact match on the
\* canonical path, else any stored path found by the ends_with search)
StoredMatches(p) ==
    IF CanonicalOrRaw(p) \in DOMAIN watched_paths
    THEN { CanonicalOrRaw(p) }
    ELSE { s \in DOMAIN watched_paths : EndsWith(s, p) \/ EndsWith(p, s) }

WNoReturn == [ok |-> FALSE, code |-> 0, paths |-> {}]
WOk == [WNoReturn EXCEPT !.ok = TRUE]
WErr(code) == [WNoReturn EXCEPT !.code = code]

IdleWCall == [op |-> "none", pc |-> "idle", path |-> << >>, canon |-> << >>,
              recursive |-> FALSE, ret |-> WNoReturn]

\* handle_add / WatchManager::watch: path.canonicalize()
WatchBegin(c, p, recursive) ==
    /\ wcalls[c].pc = "idle"
    /\ wcalls' = [wcalls EXCEPT ![c] =
                    IF Canonicalize(p).ok
                    THEN [@ EXCEPT !.op = "add", !.pc = "watching", !.path = p,
                                   !.canon = Canonicalize(p).path, !.recursive = recursive]
                    ELSE [@ EXCEPT !.op = "add", !.pc = "done", !.path = p,
                                   !.recursive = recursive, !.ret = WErr(INTERNAL_ERROR)]]
    /\ UNCHANGED <<watched_paths, osWatched, watcherLock, pathsLock, dirs>>
    /\ UNCHANGED <<transportVars, procVars, ptyVars, leafVars>>

\* watch: lock_or_recover(&self.watcher) and watcher.watch(&canonical, mode)?,
\* which fails when the directory is gone or the OS refuses another watch
WatchOs(c) ==
    /\ wcalls[c].pc = "watching"
    /\ watcherLock = 0
    /\ \E accepted \in BOOLEAN :
          IF accepted /\ wcalls[c].canon \in dirs
          THEN /\ osWatched' = osWatched \cup { wcalls[c].canon }
               /\ watcherLock' = c
               /\ wcalls' = [wcalls EXCEPT ![c] = [@ EXCEPT !.pc = "inserting"]]
          ELSE /\ wcalls' = [wcalls EXCEPT ![c] =
                               [@ EXCEPT !.pc = "done", !.ret = WErr(INTERNAL_ERROR)]]
                          /\ UNCHANGED <<osWatched, watcherLock>>
    /\ UNCHANGED <<watched_paths, pathsLock, dirs>>
    /\ UNCHANGED <<transportVars, procVars, ptyVars, leafVars>>

\* watch: lock_or_recover(&self.watched_paths) with the watcher guard still
\* held, paths.insert(canonical, mode), both guards dropped on return
WatchInsert(c) ==
    /\ wcalls[c].pc = "inserting"
    /\ pathsLock = 0
    /\ watched_paths' = Insert(watched_paths, wcalls[c].canon, wcalls[c].recursive)
    /\ watcherLock' = 0
    /\ wcalls' = [wcalls EXCEPT ![c] = [@ EXCEPT !.pc = "done", !.ret = WOk]]
    /\ UNCHANGED <<osWatched, pathsLock, dirs>>
    /\ UNCHANGED <<transportVars, procVars, ptyVars, leafVars>>

\* a faulty lookup that keeps the registry guard for the rest of unwatch
GuardKeptAfterLookup(c) == c

\* unwatch: the registry guard `paths` lives in the block that computes
\* stored_path and is dropped at the end of that block: nobody holds the
\* registry mutex afterwards
GuardAfterLookup(c) == 0

\* handle_remove / WatchManager::unwatch: the stored path is looked up under
\* the registry mutex alone
UnwatchLookup(c, p) ==
    /\ wcalls[c].pc = "idle"
    /\ pathsLock = 0
    /\ IF StoredMatches(p) = {}
       THEN /\ wcalls' = [wcalls EXCEPT ![c] =
                            [@ EXCEPT !.op = "remove", !.pc = "done", !.path = p,
                                      !.ret = WErr(INTERNAL_ERROR)]]
            /\ UNCHANGED pathsLock
       ELSE /\ \E stored \in StoredMatches(p) :
                  wcalls' = [wcalls EXCEPT ![c] =
                               [@ EXCEPT !.op = "remove", !.pc = "unwatching", !.path = p,
                                         !.canon = stored]]
            /\ pathsLock' = GuardAfterLookup(c)
    /\ UNCHANGED <<watched_paths, osWatched, watcherLock, dirs>>
    /\ UNCHANGED <<transportVars, procVars, ptyVars, leafVars>>

\* unwatch: lock_or_recover(&self.watcher) and watcher.unwatch(&stored_path)?,
\* an error when the watcher holds no watch for that path
UnwatchOs(c) ==
    /\ wcalls[c].pc = "unwatching"
    /\ watcherLock = 0
    /\ IF wcalls[c].canon \in osWatched
       THEN /\ osWatched' = osWatched \ { wcalls[c].canon }
            /\ watcherLock' = c
            /\ wcalls' = [wcalls EXCEPT ![c] = [@ EXCEPT !.pc = "erasing"]]
       ELSE /\ wcalls' = [wcalls EXCEPT ![c] =
                            [@ EXCEPT !.pc = "done", !.ret = WErr(INTERNAL_ERROR)]]
                    /\ UNCHANGED <<osWatched, watcherLock>>
    /\ UNCHANGED <<watched_paths, pathsLock, dirs>>
    /\ UNCHANGED <<transportVars, procVars, ptyVars, leafVars>>

\* unwatch: lock_or_recover(&self.watched_paths) with the watcher guard still
\* held, paths.remove(&stored_path), both guards dropped on return
UnwatchErase(c) ==
    /\ wcalls[c].pc = "erasing"
    /\ pathsLock = 0
    /\ watched_paths' = Remove(watched_paths, wcalls[c].canon)
    /\ watcherLock' = 0
    /\ wcalls' = [wcalls EXCEPT ![c] = [@ EXCEPT !.pc = "done", !.ret = WOk]]
    /\ UNCHANGED <<osWatched, pathsLock, dirs>>
    /\ UNCHANGED <<transportVars, procVars, ptyVars, leafVars>>

\* handle_list / WatchManager::list: the registry contents, read under the
\* registry mutex
WatchList(c) ==
    /\ wcalls[c].pc = "idle"
    /\ pathsLock = 0
    /\ wcalls' = [wcalls EXCEPT ![c] =
                    [@ EXCEPT !.op = "list", !.pc = "done",
                              !.ret = [WOk EXCEPT !.paths = DOMAIN watched_paths]]]
    /\ UNCHANGED <<watched_paths, osWatched, watcherLock, pathsLock, dirs>>
    /\ UNCHANGED <<transportVars, procVars, ptyVars, leafVars>>

\* a directory of the host is deleted.  inotify then discards its watch
\* (IN_IGNORED); other backends may keep the path registered.
DeleteDir(d) ==
    /\ d \in dirs
    /\ dirs' = dirs \ { d }
    /\ \E dropped \in BOOLEAN :
          osWatched' = IF dropped THEN osWatched \ { d } ELSE osWatched
    /\ UNCHANGED <<watched_paths, watcherLock, pathsLock, wcalls>>
    /\ UNCHANGED <<transportVars, procVars, ptyVars, leafVars>>

----------------------------------------------------------------------------
(* commands.run_parallel (handlers/commands.rs) *)

MAX_PARALLEL_COMMANDS == 256

\* what a leaf handler returned
LeafNone == [ok |-> FALSE, code |-> 0, result |-> <<>>]
LeafOk(result) == [ok |-> TRUE, code |-> 0, result |-> result]
LeafErr(code) == [ok |-> FALSE, code |-> code, result |-> <<>>]

CommandKeys == { "a", "b" }

\* how cmd.output() ends in a worker thread: the child exits with 0 or 1, dies
\* by a signal, cannot be spawned, or the thread panics
Outcomes == { "exit0", "exit1", "signal", "nospawn", "panic" }

\* n consecutive entries with the same key whose commands end the same way
Entries(key, outcome, n) == [key |-> key, outcome |-> outcome, n |-> n]

ShortLists ==
    UNION { [1..n -> { Entries(k, o, 1) : k \in CommandKeys, o \in Outcomes }] :
              n \in 0..MaxCommands }

\* a short list padded with equal entries up to `total`
Padded(list, total) ==
    IF total > Len(list)
    THEN Append(list, Entries("a", "exit0", total - Len(list)))
    ELSE list

\* the command lists of the requests considered: short ones, and lists of
\* exactly the limit and one beyond it
CommandLists ==
    { Padded(l, t) : l \in ShortLists,
                     t \in { 0, MAX_PARALLEL_COMMANDS, MAX_PARALLEL_COMMANDS + 1 } }

RECURSIVE CommandCount(_)
\* params.commands.len()
CommandCount(cmds) ==
    IF cmds = <<>> THEN 0 ELSE Head(cmds).n + CommandCount(Tail(cmds))

\* a limit that already rejects MAX_PARALLEL_COMMANDS entries
TooManyFrom(n) == n >= MAX_PARALLEL_COMMANDS

\* params.commands.len() > MAX_PARALLEL_COMMANDS
TooMany(n) == n > MAX_PARALLEL_COMMANDS

\* the value a worker builds from cmd.output(): exit_code is
\* status.code().unwrap_or(-1) for a child that ran, -1 with the error text in
\* stderr when it could not be spawned
Record(outcome) ==
    [exit_code |-> IF outcome = "exit0" THEN 0 ELSE IF outcome = "exit1" THEN 1 ELSE 0 - 1,
     stdout |-> IF outcome = "nospawn" THEN "" ELSE "stdout of the child",
     stderr |-> IF outcome = "nospawn" THEN "error text" ELSE "stderr of the child"]

RECURSIVE Joined(_)
\* handles.into_iter().filter_map(h.join()): the results in entry order, without
\* those of panicked threads
Joined(cmds) ==
    IF cmds = <<>> THEN <<>>
    ELSE (IF Head(cmds).outcome = "panic" THEN <<>>
          ELSE << [key |-> Head(cmds).key, value |-> Record(Head(cmds).outcome),
                   n |-> Head(cmds).n] >>)
         \o Joined(Tail(cmds))

RECURSIVE PairsByKey(_)
\* a result keyed by the entry key: the last record of each key remains
PairsByKey(results) ==
    IF results = <<>> THEN <<>>
    ELSE IF Head(results).n > 1 \/ \E j \in 2..Len(results) : results[j].key = Head(results).key
    THEN PairsByKey(IF Head(results).n > 1
                    THEN << [Head(results) EXCEPT !.n = 1] >> \o Tail(results)
                    ELSE Tail(results))
    ELSE << Head(results) >> \o PairsByKey(Tail(results))

\* Value::Map(pairs): a vector of (key, value) pairs, one per joined result
Pairs(results) == results

IdleRun == [pc |-> "idle", wf |-> TRUE, commands |-> <<>>, finished |-> {}, spawned |-> 0,
            ret |-> LeafNone]

\* run_parallel up to spawn_blocking: from_value, the empty list, the limit
RunParallelBegin(cmds, wf) ==
    /\ rp.pc = "idle"
    /\ rp' = IF ~wf
             THEN [rp EXCEPT !.pc = "done", !.wf = FALSE, !.commands = cmds,
                             !.ret = LeafErr(INVALID_PARAMS)]
             ELSE IF cmds = <<>>
             THEN [rp EXCEPT !.pc = "done", !.commands = cmds, !.ret = LeafOk(<<>>)]
             ELSE IF TooMany(CommandCount(cmds))
             THEN [rp EXCEPT !.pc = "done", !.commands = cmds,
                             !.ret = LeafErr(INVALID_PARAMS)]
             ELSE [rp EXCEPT !.pc = "scope", !.commands = cmds]
    /\ UNCHANGED <<scan, listing>>
    /\ UNCHANGED <<transportVars, procVars, ptyVars, watchVars>>

\* the threads of the entries of run i call cmd.output(); a subprocess exists
\* for every command that could be spawned
Worker(i) ==
    /\ rp.pc = "scope"
    /\ i \in 1..Len(rp.commands)
    /\ i \notin rp.finished
    /\ rp' = [rp EXCEPT !.finished = @ \cup {i},
                        !.spawned = @ + (IF rp.commands[i].outcome \in {"nospawn", "panic"}
                                         THEN 0 ELSE rp.commands[i].n)]
    /\ UNCHANGED <<scan, listing>>
    /\ UNCHANGED <<transportVars, procVars, ptyVars, watchVars>>

\* every handle is joined, thread::scope and the blocking task return
RunParallelJoin ==
    /\ rp.pc = "scope"
    /\ rp.finished = 1..Len(rp.commands)
    /\ rp' = [rp EXCEPT !.pc = "done", !.ret = LeafOk(Pairs(Joined(rp.commands)))]
    /\ UNCHANGED <<scan, listing>>
    /\ UNCHANGED <<transportVars, procVars, ptyVars, watchVars>>

----------------------------------------------------------------------------
(* ancestors.scan (handlers/commands.rs).  A directory is named by its level: *)
(* the root is level 0 and the parent of level l is level l - 1.             *)

Levels == 0..MaxLevel

MarkerNames == { ".git", "Makefile" }

MarkerLists == UNION { [1..n -> MarkerNames] : n \in 0..MaxMarkers }

\* the levels at which each marker exists on the host
Trees == [MarkerNames -> SUBSET Levels]

IdleScan == [pc |-> "idle", exists |-> TRUE, start |-> 0, markers |-> <<>>, max_depth |-> 0,
             tree |-> [m \in MarkerNames |-> {}], current |-> 0, depth |-> 0,
             results |-> EmptyMap, ret |-> LeafNone]

\* results.values().all(|v| v.is_some())
AllFound(results) == \A m \in DOMAIN results : results[m] # {}

\* one pass of the for loop over params.markers: a marker not found yet is
\* recorded when current.join(marker) exists
Probe(results, tree, current) ==
    [m \in DOMAIN results |->
        IF results[m] = {} /\ current \in tree[m] THEN {current} ELSE results[m]]

\* ancestors_scan up to the loop: from_value, dir.exists(), results initialised
\* to None for each marker
ScanBegin(start, exists, markers, max_depth, tree) ==
    /\ scan.pc = "idle"
    /\ scan' = IF ~exists
               THEN [scan EXCEPT !.pc = "done", !.exists = FALSE, !.start = start,
                                 !.markers = markers, !.max_depth = max_depth,
                                 !.tree = tree, !.ret = LeafErr(FILE_NOT_FOUND)]
               ELSE [scan EXCEPT !.pc = "loop", !.start = start, !.markers = markers,
                                 !.max_depth = max_depth, !.tree = tree,
                                 !.current = start, !.depth = 0,
                                 !.results = [m \in { markers[i] : i \in 1..Len(markers) }
                                                |-> {}]]
    /\ UNCHANGED <<rp, listing>>
    /\ UNCHANGED <<transportVars, procVars, ptyVars, watchVars>>

\* one test of `while depth < params.max_depth` with the loop body, and the
\* conversion of the results once the loop is left
ScanLevel ==
    /\ scan.pc = "loop"
    /\ LET probed == Probe(scan.results, scan.tree, scan.current) IN
       scan' = IF ~(scan.depth < scan.max_depth)
               THEN [scan EXCEPT !.pc = "done", !.ret = LeafOk(scan.results)]
               ELSE IF AllFound(probed) \/ scan.current = 0
               THEN [scan EXCEPT !.pc = "done", !.results = probed, !.ret = LeafOk(probed)]
               ELSE [scan EXCEPT !.results = probed, !.current = @ - 1, !.depth = @ + 1]
    /\ UNCHANGED <<rp, listing>>
    /\ UNCHANGED <<transportVars, procVars, ptyVars, watchVars>>

----------------------------------------------------------------------------
(* dir.list (handlers/dir.rs).  A name is the sequence of its bytes.         *)

\* '-', '.', 'a'
NameBytes == { 45, 46, 97 }

DotName == << 46 >>
DotDotName == << 46, 46 >>

\* the names read_dir can yield: it never yields `.` or `..`
Names == (UNION { [1..n -> NameBytes] : n \in 1..MaxNameLen }) \ { DotName, DotDotName }

Directories == { d \in SUBSET Names : Cardinality(d) <= MaxEntries }

\* a.name.cmp(&b.name) = Less on Vec<u8>: lexicographic on the bytes
NameLess(a, b) ==
    \E k \in 0..Len(a) :
        /\ k <= Len(b)
        /\ \A i \in 1..k : a[i] = b[i]
        /\ \/ k = Len(a) /\ k < Len(b)
           \/ k < Len(a) /\ k < Len(b) /\ a[k + 1] < b[k + 1]

RECURSIVE SortByName(_)
\* results.sort_by(|a, b| a.name.cmp(&b.name)) on entries with distinct names
SortByName(names) ==
    IF names = {} THEN <<>>
    ELSE LET least == CHOOSE x \in names : \A y \in names \ {x} : NameLess(x, y)
         IN  << least >> \o SortByName(names \ {least})

\* name_bytes.first() == Some(&b'.')
IsHidden(name) == name[1] = 46

\* the names pushed into `results` before the sort
Pushed(dir, include_hidden) ==
    IF include_hidden THEN { DotName, DotDotName } \cup dir
    ELSE { name \in dir : ~IsHidden(name) }

IdleListing == [pc |-> "idle", dir |-> {}, include_hidden |-> FALSE, ret |-> LeafNone]

\* list and list_dir_sync: the entries of an existing directory, or the error
\* read_dir returns for a missing one
ListDir(dir, exists, include_hidden) ==
    /\ listing.pc = "idle"
    /\ listing' = [listing EXCEPT
                      !.pc = "done", !.dir = dir, !.include_hidden = include_hidden,
                      !.ret = IF exists THEN LeafOk(SortByName(Pushed(dir, include_hidden)))
                              ELSE LeafErr(FILE_NOT_FOUND)]
    /\ UNCHANGED <<rp, scan>>
    /\ UNCHANGED <<transportVars, procVars, ptyVars, watchVars>>

----------------------------------------------------------------------------
(* Specifications *)

InitTransport(streams, fs) ==
    /\ stdin \in streams
    /\ reader = "len"
    /\ curLen = 0
    /\ tasks = <<>>
    /\ writer = NoHolder
    /\ stdout = <<>>
    /\ events = <<>>
    /\ fsLeft = fs
    /\ debounce = [pc |-> "recv", pending |-> {}, sent |-> 0,
                   remaining |-> 0, elapsed |-> 0, windows |-> <<>>]
    /\ stderr = <<>>
    /\ sinkOpen = TRUE

InitProcess ==
    /\ pidCounter = 1
    /\ processMap = EmptyMap
    /\ mapLock = 0
    /\ calls = [c \in CallIds |-> IdleCall]
    /\ issued = <<>>

InitPty ==
    /\ ptyCounter = PtyFirstKey
    /\ ptyMap = EmptyMap
    /\ ptyLock = 0
    /\ closed = [k \in ClientPtyKeys |-> 0]
    /\ ptyIssued = <<>>

InitWatch ==
    /\ watched_paths = EmptyMap
    /\ osWatched = {}
    /\ watcherLock = 0
    /\ pathsLock = 0
    /\ dirs = HostDirs
    /\ wcalls = [c \in WCallIds |-> IdleWCall]

InitLeaves ==
    /\ rp = IdleRun
    /\ scan = IdleScan
    /\ listing = IdleListing

InitHandlers == InitProcess /\ InitPty /\ InitWatch /\ InitLeaves

\* the request loop, the dispatcher and the response writer
Init == InitTransport(ClientStreams, 0) /\ InitHandlers

TaskStep(t) ==
    \/ TaskRun(t)
    \/ TaskLock(t)
    \/ TaskWriteLen(t)
    \/ TaskWritePayload(t)
    \/ TaskFlush(t)

Next ==
    \/ ReadLen
    \/ ReadPayload
    \/ JoinTasks
    \/ \E t \in 1..Len(tasks) : TaskStep(t)
    \/ \E t \in 1..Len(tasks) : \E i \in 1..Len(tasks[t].subs) : BatchSub(t, i)
    \/ \E t \in 1..Len(tasks) : BatchFinish(t)

Spec == Init /\ [][Next]_vars

\* one batch request with every combination of sub-requests
SubMethods == { "file.stat", "process.read", "batch", "nonexistent.method" }

BatchInputs == UNION { [1..n -> SubMethods] : n \in 0..MaxBatch }

BatchStreams ==
    { Frame(Msg("ok", "2.0", 1, "batch", [wf |-> TRUE, requests |-> rs])) : rs \in BatchInputs }

InitBatch == InitTransport(BatchStreams, 0) /\ InitHandlers

SpecBatch == InitBatch /\ [][Next]_vars

\* responses and notifications sharing the stdout writer
WriterStreams ==
    { Stream(kinds, 1) : kinds \in KindSeqs({"exists", "garbage"}, MaxFrames) }

InitWriter == InitTransport(WriterStreams, MaxFsEvents) /\ InitHandlers

NextWriter ==
    \/ ReadLen
    \/ ReadPayload
    \/ JoinTasks
    \/ \E t \in 1..Len(tasks) : TaskStep(t)
    \/ FsEvent
    \/ DebounceRecv
    \/ DebounceCollect
    \/ Tick
    \/ DebounceExpire
    \/ NotifyLock
    \/ NotifyWriteLen
    \/ NotifyWritePayload
    \/ NotifyFlush

SpecWriter == InitWriter /\ [][NextWriter]_vars

\* the process table under concurrent process.* requests
InitProc == InitTransport({ <<>> }, 0) /\ InitHandlers

NextProc ==
    \/ \E c \in CallIds : StartSpawn(c) \/ StartAlloc(c) \/ StartInsert(c)
    \/ \E c \in CallIds, key \in ClientKeys, sig \in Signals : Kill(c, key, sig)
    \/ \E c \in CallIds, key \in ClientKeys : WriteBegin(c, key) \/ ReadBegin(c, key)
    \/ \E c \in CallIds : WriteEnd(c) \/ ReadEnd(c)
    \/ \E c \in CallIds, key \in ClientKeys : CloseStdin(c, key)
    \/ \E c \in CallIds : List(c)
    \/ \E c \in CallIds : RunSpawn(c) \/ RunWait(c)
    \/ \E key \in ClientKeys, code \in {0, 1} : ChildExit(key, code)

SpecProc == InitProc /\ [][NextProc]_vars

\* the PTY table under concurrent process.*_pty requests, next to process.start
NextPty ==
    \/ \E c \in CallIds : PtyFork(c) \/ PtyAlloc(c) \/ PtyInsert(c)
    \/ \E c \in CallIds, key \in ClientPtyKeys, timeout \in Timeouts, fits \in BOOLEAN :
          ReadPtyBegin(c, key, timeout, fits)
    \/ \E c \in CallIds : ReadPtyRecheck(c) \/ ReadPtyWake(c)
    \/ \E c \in CallIds : WaitLookup(c) \/ PtyPoll(c)
    \/ \E c \in CallIds, key \in ClientPtyKeys : WritePtyBegin(c, key)
    \/ \E c \in CallIds : WritePtyEnd(c)
    \/ \E c \in CallIds, key \in ClientPtyKeys : ResizePty(c, key)
    \/ \E c \in CallIds, key \in ClientPtyKeys, sig \in Signals : KillPty(c, key, sig)
    \/ \E c \in CallIds, key \in ClientPtyKeys : ClosePty(c, key)
    \/ \E c \in CallIds : ListPty(c)
    \/ \E key \in ClientPtyKeys, code \in {0, 1} : PtyChildExit(key, code)
    \/ \E c \in CallIds : StartSpawn(c) \/ StartAlloc(c) \/ StartInsert(c)
    \/ StartKillRounds

SpecPty == InitProc /\ [][NextPty]_vars

\* the watch registry under concurrent watch.* requests
NextWatch ==
    \/ \E c \in WCallIds, p \in ClientPaths, recursive \in BOOLEAN : WatchBegin(c, p, recursive)
    \/ \E c \in WCallIds : WatchOs(c) \/ WatchInsert(c)
    \/ \E c \in WCallIds, p \in ClientPaths : UnwatchLookup(c, p)
    \/ \E c \in WCallIds : UnwatchOs(c) \/ UnwatchErase(c)
    \/ \E c \in WCallIds : WatchList(c)
    \/ \E d \in HostDirs : DeleteDir(d)

SpecWatch == InitProc /\ [][NextWatch]_vars

\* the shutdown: stdin is at EOF while process.* handlers are in flight.  The
\* runtime runs whatever can run; when a child exits, reads its stdin or
\* drains its terminal is up to the child.
NextShutdown ==
    \/ ReadLen
    \/ JoinTasks
    \/ \E c \in CallIds : RunSpawn(c) \/ RunWait(c)
    \/ \E c \in CallIds : StartSpawn(c) \/ StartAlloc(c) \/ StartInsert(c)
    \/ \E c \in CallIds, key \in ClientKeys : WriteBegin(c, key)
    \/ \E c \in CallIds : WriteEnd(c)
    \/ \E c \in CallIds : PtyFork(c) \/ PtyAlloc(c) \/ PtyInsert(c)
    \/ \E c \in CallIds, key \in ClientPtyKeys : WritePtyBegin(c, key)
    \/ \E c \in CallIds : WritePtyEnd(c)

SpecShutdown ==
    /\ InitProc
    /\ [][NextShutdown]_vars
    /\ WF_vars(ReadLen)
    /\ WF_vars(JoinTasks)
    /\ \A c \in CallIds : WF_vars(StartAlloc(c)) /\ WF_vars(StartInsert(c))
    /\ \A c \in CallIds : WF_vars(PtyAlloc(c)) /\ WF_vars(PtyInsert(c))

\* the watcher pipeline on its own: the client sends nothing and may stop
\* reading.  The runtime schedules debounce_loop whenever it can run and the
\* timer fires when it is due.
InitDebounce == InitTransport({ <<>> }, MaxFsEvents + 1) /\ InitHandlers

NextDebounce ==
    \/ FsEvent
    \/ DebounceRecv
    \/ DebounceCollect
    \/ Tick
    \/ DebounceExpire
    \/ NotifyLock
    \/ NotifyWriteLen
    \/ NotifyWritePayload
    \/ NotifyFlush
    \/ SinkBreak

SpecDebounce ==
    /\ InitDebounce
    /\ [][NextDebounce]_vars
    /\ WF_vars(DebounceRecv)
    /\ WF_vars(Tick)
    /\ WF_vars(DebounceExpire)
    /\ WF_vars(NotifyLock)
    /\ WF_vars(NotifyWriteLen)
    /\ WF_vars(NotifyWritePayload)
    /\ WF_vars(NotifyFlush)

\* the channel while the watcher thread outruns debounce_loop
InitQueue == InitTransport({ <<>> }, MaxFsEvents + 1) /\ InitHandlers

NextQueue ==
    \/ FsEvent
    \/ FsBurst
    \/ DebounceRecv
    \/ DebounceCollect

SpecQueue == InitQueue /\ [][NextQueue]_vars

\* one commands.run_parallel request
NextParallel ==
    \/ \E cmds \in CommandLists, wf \in BOOLEAN : RunParallelBegin(cmds, wf)
    \/ \E i \in 1..(MaxCommands + 1) : Worker(i)
    \/ RunParallelJoin

SpecParallel == InitProc /\ [][NextParallel]_vars

\* one ancestors.scan request
NextScan ==
    \/ \E start \in Levels, exists \in BOOLEAN, markers \in MarkerLists,
          max_depth \in 0..(MaxLevel + 1), tree \in Trees :
          ScanBegin(start, exists, markers, max_depth, tree)
    \/ ScanLevel

SpecScan == InitProc /\ [][NextScan]_vars

\* one dir.list request
NextList ==
    \E dir \in Directories, exists \in BOOLEAN, include_hidden \in BOOLEAN :
        ListDir(dir, exists, include_hidden)

SpecList == InitProc /\ [][NextList]_vars

----------------------------------------------------------------------------
(* Properties of the transport *)

Terminal(t) == tasks[t].pc \in {"done", "panicked"}

Returned(t) == tasks[t].pc \in {"ready", "locked", "wrote_len", "wrote_payload", "done"}

WellFormed(t) == Decodes(tasks[t].payload) /\ Decoded(tasks[t].payload).version = "2.0"

\* positions of stdout holding the payload of a response frame
ResponseAt == { i \in 1..Len(stdout) : stdout[i].part = "payload" /\ stdout[i].owner[1] = "task" }

ResponsesWithId(id) == { i \in ResponseAt : stdout[i].frame.id = id }

\* C1: every request that decodes to a well-formed version "2.0" envelope gets
\* exactly one response frame carrying its id, once its task has ended, whatever
\* the method and whatever the handler did.
C1_ExactlyOneResponse ==
    \A t \in 1..Len(tasks) :
        (Terminal(t) /\ WellFormed(t))
            => Cardinality(ResponsesWithId(Decoded(tasks[t].payload).id)) = 1

\* a frame is the pair of writes (length prefix, payload) of one owner
FramePair(i) ==
    /\ stdout[i].part = "len"
    /\ stdout[i + 1].part = "payload"
    /\ stdout[i + 1].owner = stdout[i].owner

\* C2: the bytes of two frames never interleave on stdout: the writes issued on
\* the sink are, in order, the length prefix and the payload of one frame after
\* another, and a frame whose payload is still to come belongs to the one task
\* holding the writer lock.
C2_FramesNeverInterleave ==
    /\ \A i \in 1..Len(stdout) : (i % 2 = 1 /\ i < Len(stdout)) => FramePair(i)
    /\ Len(stdout) % 2 = 1 =>
          /\ stdout[Len(stdout)].part = "len"
          /\ writer = stdout[Len(stdout)].owner

\* a response and a notification are both on stdout, and a task is waiting for
\* the writer while the debounce task holds it in the middle of a frame
C2_Witness ==
    /\ \E i \in 1..Len(stdout) : stdout[i].owner[1] = "task" /\ stdout[i].part = "payload"
    /\ debounce.pc = "wrote_len"
    /\ \E t \in 1..Len(tasks) : tasks[t].pc = "ready"

\* C3: after a length prefix above 100 MiB the loop is back at a frame boundary:
\* whenever it is about to read a length prefix, the next bytes of stdin are a
\* length prefix the client sent, and no task was spawned from bytes of an
\* oversize frame.
C3_OversizeDrained ==
    /\ (reader = "len" /\ stdin # <<>>) => Head(stdin).k = "len"
    /\ \A t \in 1..Len(tasks) : \A j \in 1..Len(tasks[t].payload) :
          tasks[t].payload[j].k # "junk"

\* C4: a payload that is not accepted as a request gets exactly one error
\* response, carrying the id found in the payload when there is one and a null
\* id only when there is none.
RecoverableId(payload) ==
    IF Len(payload) = 1 /\ payload[1].k = "msg" THEN payload[1].v.id ELSE NoId

C4_MalformedAnsweredWithId ==
    \A t \in 1..Len(tasks) :
        (Terminal(t) /\ ~Decodes(tasks[t].payload))
            => /\ ~tasks[t].resp.ok
               /\ tasks[t].resp.id = RecoverableId(tasks[t].payload)

\* C5: a request whose handler panicked is answered, by the time the agent has
\* finished its work, with exactly one internal-error response carrying its id.
C5_PanicAnswered ==
    \A t \in 1..Len(tasks) :
        (reader = "exit" /\ tasks[t].pc = "panicked")
            => \E i \in ResponsesWithId(Decoded(tasks[t].payload).id) :
                  stdout[i].frame.code = INTERNAL_ERROR

----------------------------------------------------------------------------
(* Properties of batch and of routing *)

IsBatch(t) ==
    /\ WellFormed(t)
    /\ Decoded(tasks[t].payload).method = "batch"
    /\ Decoded(tasks[t].payload).params.wf

BatchInput(t) == Decoded(tasks[t].payload).params.requests

\* C7: the results array of a batch response has one entry per sub-request, and
\* entry i is the outcome of routing sub-request i: a result when its handler
\* returned one, otherwise an error with the code it failed with
\* (method-not-found when the method is not routable).
C7_BatchResultsInOrder ==
    \A t \in 1..Len(tasks) :
        (IsBatch(t) /\ Returned(t)) =>
            /\ Len(tasks[t].resp.result) = Len(BatchInput(t))
            /\ \A i \in 1..Len(BatchInput(t)) :
                  /\ tasks[t].subs[i].method = BatchInput(t)[i]
                  /\ tasks[t].resp.result[i].code = tasks[t].subs[i].out.code
                  /\ (tasks[t].resp.result[i].code = 0) = (tasks[t].subs[i].out.kind = "ok")
                  /\ BatchInput(t)[i] \notin RoutedMethods
                        => tasks[t].resp.result[i].code = METHOD_NOT_FOUND

\* two sub-requests with different outcomes completed in reverse order
C7_Witness ==
    \E t \in 1..Len(tasks) :
        /\ IsBatch(t) /\ Returned(t)
        /\ tasks[t].order = << 2, 1 >>
        /\ tasks[t].resp.result[1].code # tasks[t].resp.result[2].code

\* C8: every batch request with well-formed params whose task has ended has a
\* success outer response: a sub-request that failed (handler error, unknown
\* method, nested batch) shows only as an error entry at its own position, with
\* its code, and a nested batch is rejected as method-not-found.
C8_BatchOuterSuccess ==
    \A t \in 1..Len(tasks) :
        (IsBatch(t) /\ Terminal(t)) =>
            /\ tasks[t].pc = "done"
            /\ tasks[t].resp.ok
            /\ tasks[t].resp.id = Decoded(tasks[t].payload).id
            /\ \A i \in 1..Len(BatchInput(t)) :
                  /\ tasks[t].subs[i].out.kind = "err"
                        => tasks[t].resp.result[i].code = tasks[t].subs[i].out.code
                  /\ BatchInput(t)[i] \in {"batch", "nonexistent.method"}
                        => tasks[t].resp.result[i].code = METHOD_NOT_FOUND

\* the normative method catalogue
Catalogue ==
    RoutedMethods \cup { "commands.run_parallel", "ancestors.scan", "magit.status",
                         "watch.add", "watch.remove", "watch.list", "batch" }

\* C9: a request is answered with method-not-found exactly when its method name
\* is outside the catalogue.
C9_RoutedIffInCatalogue ==
    \A t \in 1..Len(tasks) :
        (WellFormed(t) /\ Returned(t)) =>
            ((~tasks[t].resp.ok /\ tasks[t].resp.code = METHOD_NOT_FOUND)
                <=> Decoded(tasks[t].payload).method \notin Catalogue)

----------------------------------------------------------------------------
(* Properties of the process table *)

StartReturned(c) == calls[c].op = "start" /\ calls[c].pc = "done" /\ calls[c].ret.ok

IssuedKeys == { issued[i] : i \in 1..Len(issued) }

\* C10: keys are issued from 1 in strictly increasing order, so no two
\* process.start calls return the same key, every key in the table or returned
\* was issued once, and a key whose entry was removed by SIGKILL is not issued
\* again.
C10_KeysNeverReused ==
    /\ Len(issued) > 0 => issued[1] = 1
    /\ \A i \in 1..Len(issued) : \A j \in 1..Len(issued) : i < j => issued[i] < issued[j]
    /\ \A k \in IssuedKeys : k < pidCounter
    /\ DOMAIN processMap \subseteq IssuedKeys
    /\ \A c \in CallIds : StartReturned(c) => calls[c].ret.key \in IssuedKeys
    /\ \A c \in CallIds : \A d \in CallIds :
          (c # d /\ StartReturned(c) /\ StartReturned(d)) => calls[c].ret.key # calls[d].ret.key

\* key 1 was returned, its entry was removed by SIGKILL, and a later
\* process.start has returned another key
C10_Witness ==
    \E c \in CallIds : \E d \in CallIds : \E e \in CallIds :
        /\ StartReturned(c) /\ calls[c].ret.key = 1
        /\ calls[d].op = "kill" /\ calls[d].ret.ok /\ calls[d].key = 1
        /\ 1 \notin DOMAIN processMap
        /\ StartReturned(e) /\ e # c
        /\ calls[e].ret.key \in DOMAIN processMap

PtyStartReturned(c) == calls[c].op = "start_pty" /\ calls[c].pc = "done" /\ calls[c].ret.ok

\* C11: every key returned by process.start_pty is at least 10000, and no key
\* returned by process.start_pty equals a key returned by process.start.
C11_PtyKeysDisjoint ==
    /\ \A i \in 1..Len(ptyIssued) : ptyIssued[i] >= PtyFirstKey
    /\ \A c \in CallIds : PtyStartReturned(c) => calls[c].ret.key >= PtyFirstKey
    /\ \A c \in CallIds : \A d \in CallIds :
          (StartReturned(c) /\ PtyStartReturned(d)) => calls[c].ret.key # calls[d].ret.key

\* what the table holds for an entry, apart from the state of the OS process
Handle(child) == [reaped |-> child.reaped, stdinOpen |-> child.stdinOpen]

\* C12: a process.kill on a key that is in the pipe table removes the entry
\* exactly when the signal is SIGKILL; with any other signal the table keeps
\* the same keys and the same entries, and no other entry is ever touched.
C12_KillRemovesOnSigkill ==
    [][\A c \in CallIds : \A key \in ClientKeys : \A sig \in Signals :
          (Kill(c, key, sig) /\ key \in DOMAIN processMap) =>
              /\ (sig = SIGKILL) <=> (key \notin DOMAIN processMap')
              /\ sig # SIGKILL => Handle(processMap'[key]) = Handle(processMap[key])
              /\ \A k \in DOMAIN processMap \ {key} :
                    k \in DOMAIN processMap' /\ processMap'[k] = processMap[k]]_vars

KilledBySigkill(key) ==
    /\ \E c \in CallIds : StartReturned(c) /\ calls[c].ret.key = key
    /\ \E d \in CallIds : calls[d].op = "kill" /\ calls[d].pc = "done"
                            /\ calls[d].ret.ok /\ calls[d].key = key
    /\ key \notin DOMAIN processMap

\* C13: once process.kill with SIGKILL has succeeded on a key returned by
\* process.start, a process.read on that key returns a process error only
\* after a process.read on it has returned exited = true with exit_code 137.
C13_ReadAfterSigkill ==
    \A key \in ClientKeys : \A r \in CallIds :
        (KilledBySigkill(key) /\ calls[r].op = "read" /\ calls[r].pc = "done"
            /\ calls[r].key = key /\ ~calls[r].ret.ok)
        => \E q \in CallIds :
              /\ calls[q].op = "read" /\ calls[q].pc = "done" /\ calls[q].key = key
              /\ calls[q].ret.ok /\ calls[q].ret.exited
              /\ calls[q].ret.exit_code = { 128 + SIGKILL }

SignalCode(status) == { 128 + n : n \in status.signal }

\* a call of the given method returns a result in this step
Reports(c, op) ==
    /\ calls[c].pc # "done"
    /\ calls'[c].pc = "done"
    /\ calls'[c].op = op
    /\ calls'[c].ret.ok

\* C14: whenever process.run, process.read, process.list, process.read_pty or
\* process.list_pty reports the exit of a child that was terminated by signal
\* N, the exit_code it reports is 128 + N.
C14_SignalExitCode ==
    [][\A c \in CallIds :
          /\ (Reports(c, "run") /\ calls'[c].status.signal # {})
                => calls'[c].ret.exit_code = SignalCode(calls'[c].status)
          /\ (Reports(c, "read") /\ calls'[c].ret.exited
                  /\ processMap[calls[c].key].status.signal # {})
                => calls'[c].ret.exit_code = SignalCode(processMap[calls[c].key].status)
          /\ Reports(c, "list") =>
                \A k \in DOMAIN processMap :
                    (calls'[c].ret.entries[k].exited /\ processMap[k].status.signal # {})
                        => calls'[c].ret.entries[k].exit_code = SignalCode(processMap[k].status)
          /\ (Reports(c, "read_pty") /\ calls'[c].ret.exited
                  /\ calls'[c].key \in DOMAIN ptyMap
                  /\ ptyMap[calls'[c].key].status.signal # {})
                => calls'[c].ret.exit_code = SignalCode(ptyMap[calls'[c].key].status)
          /\ Reports(c, "list_pty") =>
                \A k \in DOMAIN ptyMap :
                    (calls'[c].ret.entries[k].exited /\ ptyMap[k].status.signal # {})
                        => calls'[c].ret.entries[k].exit_code = SignalCode(ptyMap[k].status)]_vars

\* C15: while a request on key A waits on that child's I/O, a request on
\* another key B, a process.list and the insertion of a process.start can all
\* go ahead.
C15_DistinctKeysDoNotBlock ==
    \A c \in CallIds :
        calls[c].pc \in {"writing", "reading"} =>
            \A d \in CallIds :
                /\ calls[d].pc = "idle" => ENABLED List(d)
                /\ calls[d].pc = "idle" =>
                      \A b \in DOMAIN processMap \ {calls[c].key} : ENABLED ReadBegin(d, b)
                /\ calls[d].pc = "insert" => ENABLED StartInsert(d)

PtyRemoved(key) ==
    /\ \E c \in CallIds : PtyStartReturned(c) /\ calls[c].ret.key = key
    /\ key \notin DOMAIN ptyMap

\* C16: the master descriptor of a PTY entry has been closed exactly once when
\* the entry has been removed from the table, and not at all while the entry
\* is in the table (or before it was ever inserted).
C16_MasterClosedOnce ==
    \A key \in ClientPtyKeys :
        closed[key] = IF PtyRemoved(key) THEN 1 ELSE 0

\* an entry was removed by kill_pty with SIGKILL, its master closed once, and a
\* close_pty on the same key has failed afterwards
C16_Witness ==
    \E c \in CallIds : \E d \in CallIds :
        /\ calls[c].op = "kill_pty" /\ calls[c].ret.ok /\ PtyRemoved(calls[c].key)
        /\ calls[d].op = "close_pty" /\ ~calls[d].ret.ok /\ calls[d].pc = "done"
        /\ calls[d].key = calls[c].key
        /\ closed[calls[c].key] = 1

\* a process.read_pty call ends in this step
ReadPtyEnds(c) ==
    /\ calls[c].pc \in {"idle", "recheck", "waiting", "polling"}
    /\ calls'[c].op = "read_pty"
    /\ calls'[c].pc \in {"done", "panicked"}

\* C17: a process.read_pty that finds its key missing from the PTY table (never
\* issued, already removed, or removed while the read was waiting) returns the
\* result {output: nil, exited: true, exit_code: nil}; it never fails.
C17_ReadPtyMissingKey ==
    [][\A c \in CallIds :
          (ReadPtyEnds(c) /\ calls'[c].key \notin DOMAIN ptyMap) =>
              /\ calls'[c].pc = "done"
              /\ calls'[c].ret.ok
              /\ calls'[c].ret.exited
              /\ calls'[c].ret.exit_code = {}
              /\ calls[c].pc \in {"idle", "waiting", "polling"} => calls'[c].ret.output = {}]_vars

\* C18: close_pty on a present key removes the entry, and so does kill_pty with
\* SIGKILL, whatever the state of the child; write_pty, resize_pty, kill_pty
\* and close_pty on a key that is not in the table return a process error.
C18_PtyRemovalAlways ==
    [][\A c \in CallIds : \A key \in ClientPtyKeys :
          /\ (ClosePty(c, key) /\ key \in DOMAIN ptyMap) => key \notin DOMAIN ptyMap'
          /\ (KillPty(c, key, SIGKILL) /\ key \in DOMAIN ptyMap) => key \notin DOMAIN ptyMap'
          /\ (key \notin DOMAIN ptyMap /\
                (\/ ClosePty(c, key)
                 \/ WritePtyBegin(c, key)
                 \/ ResizePty(c, key)
                 \/ \E sig \in Signals : KillPty(c, key, sig)))
                => calls'[c].ret = Err(PROCESS_ERROR)]_vars

----------------------------------------------------------------------------
(* Properties of the watch registry *)

\* C19: whenever no watch or unwatch is in the middle of its update, the paths
\* in the registry are exactly the paths the OS watcher holds a watch for.
C19_RegistryMatchesWatcher ==
    watcherLock = 0 => DOMAIN watched_paths = osWatched

AddReturned(a, p) ==
    /\ wcalls[a].op = "add" /\ wcalls[a].pc = "done" /\ wcalls[a].ret.ok
    /\ wcalls[a].path = p

\* a watch.remove call takes a step
RemoveSteps(r) == wcalls'[r] # wcalls[r] /\ wcalls'[r].op = "remove"

\* C20: when watch.add(P) has succeeded and its canonical path is still in the
\* registry, a watch.remove(P) that runs with no other watch request in flight
\* finds that canonical path, succeeds, and leaves the registry (what
\* watch.list returns) without it, also when the directory has been deleted in
\* between.
C20_AddThenRemove ==
    [][\A a \in WCallIds : \A r \in WCallIds \ {a} :
          (/\ RemoveSteps(r)
           /\ AddReturned(a, wcalls'[r].path)
           /\ wcalls[a].canon \in DOMAIN watched_paths
           /\ \A x \in WCallIds \ {r} : wcalls[x].pc \in {"idle", "done"}
           /\ wcalls[r].pc = "idle" \/ wcalls[r].canon = wcalls[a].canon)
          => /\ wcalls'[r].canon = wcalls[a].canon
             /\ wcalls'[r].pc = "done" =>
                   /\ wcalls'[r].ret.ok
                   /\ wcalls[a].canon \notin DOMAIN watched_paths']_vars

\* C21: watch.remove unregisters only the registry entry equal to the
\* canonicalized path (the raw path when canonicalization fails); when the
\* registry holds no such entry the request returns an error and removes
\* nothing, whatever components the path shares with a registered one.
C21_UnwatchExactMatch ==
    [][\A c \in WCallIds :
          /\ \A p \in ClientPaths :
                UnwatchLookup(c, p) =>
                   IF CanonicalOrRaw(p) \in DOMAIN watched_paths
                   THEN /\ wcalls'[c].pc = "unwatching"
                        /\ wcalls'[c].canon = CanonicalOrRaw(p)
                   ELSE /\ wcalls'[c].pc = "done"
                        /\ ~wcalls'[c].ret.ok
          /\ UnwatchErase(c) =>
                DOMAIN watched_paths' = DOMAIN watched_paths \ { wcalls[c].canon }]_vars

----------------------------------------------------------------------------
(* Properties of the pipe table: closed stdin *)

CloseStdinSucceeded(key) ==
    \E c \in CallIds :
        /\ calls[c].op = "close_stdin" /\ calls[c].pc = "done"
        /\ calls[c].key = key /\ calls[c].ret.ok

\* C30: once process.close_stdin on a key has succeeded, a process.write on
\* that key that starts afterwards returns a process error at once.
C30_WriteAfterCloseStdin ==
    [][\A w \in CallIds : \A key \in ClientKeys :
          (CloseStdinSucceeded(key) /\ WriteBegin(w, key))
             => /\ calls'[w].pc = "done"
                /\ calls'[w].ret = Err(PROCESS_ERROR)]_vars

----------------------------------------------------------------------------
(* Properties of the watcher pipeline *)

\* the fs.changed frames written so far, in order
NotifyPayloads ==
    SelectSeq(stdout, LAMBDA ch : ch.part = "payload" /\ ch.owner[1] = "notify")

\* the de-duplicated union of the paths of the events window w received
WindowPaths(w) ==
    UNION { debounce.windows[w][i] : i \in 1..Len(debounce.windows[w]) }

WindowIds == 1..(MaxFsEvents + 1)

OneNotificationPerWindow ==
    /\ Len(NotifyPayloads) <= Len(debounce.windows)
    /\ Len(NotifyPayloads) >= Len(debounce.windows) - 1
    /\ \A n \in 1..Len(NotifyPayloads) :
          /\ NotifyPayloads[n].frame.paths = WindowPaths(n)
          /\ NotifyPayloads[n].frame.paths # {}
    /\ debounce.pc = "recv" =>
          /\ Len(NotifyPayloads) = Len(debounce.windows)
          /\ debounce.pending = {}

\* C22: the events debounce_loop receives from the first event of a window
\* until the window expires produce one fs.changed frame, the n-th frame for the
\* n-th window, whose paths are the union of those events' paths and not empty;
\* no window is open without a frame for every earlier one, the pending set is
\* empty when the loop waits for the next first event, and as long as the
\* client reads the sink every window that opens gets its frame.
C22_OneNotificationPerWindow ==
    /\ []OneNotificationPerWindow
    /\ \A w \in WindowIds :
          (Len(debounce.windows) >= w) ~> (Len(NotifyPayloads) >= w \/ ~sinkOpen)

C22_Witness ==
    /\ Len(NotifyPayloads) >= 1
    /\ Len(debounce.windows[1]) = 3
    /\ NotifyPayloads[1].frame.paths = {"/w/a", "/w/b"}

\* C23: while a window is open its deadline stays DEBOUNCE_DURATION after the
\* first event, whatever arrives in between, and the frame of the window is
\* sent when exactly that much time has passed since the first event.
C23_DeadlineFixed ==
    /\ debounce.pc = "window" =>
          debounce.elapsed + debounce.remaining = DEBOUNCE_DURATION
    /\ debounce.pc \in {"send", "locked", "wrote_len", "wrote_payload"} =>
          debounce.elapsed = DEBOUNCE_DURATION

\* events arrive in the first window after time has passed and go on after it:
\* the first frame is out while the second window holds the later events
C23_Witness ==
    /\ Len(NotifyPayloads) = 1
    /\ Len(debounce.windows) = 2
    /\ Len(debounce.windows[1]) >= 2
    /\ debounce.pc = "window"
    /\ debounce.elapsed > 0

\* C24: the channel between the watcher callback and debounce_loop never
\* holds more than 10,000 events.
C24_QueueBounded == QueueLen(events) <= 10000

\* C25: nothing is ever written to standard error.
C25_StderrSilent == stderr = <<>>

----------------------------------------------------------------------------
(* Properties of commands.run_parallel, ancestors.scan and dir.list *)

NoWorkerPanic == \A i \in 1..Len(rp.commands) : rp.commands[i].outcome # "panic"

Within(m) ==
    { l \in scan.tree[m] : l <= scan.start /\ scan.start - l <= scan.max_depth }

\* the nearest of a non-empty set of levels at or above the start directory
Nearest(levels) == CHOOSE l \in levels : \A k \in levels : k <= l

\* C28: ancestors.scan on an existing directory returns one entry per
\* distinct marker: the nearest directory holding the marker among the start
\* directory and its ancestors at most max_depth levels above, nil when there
\* is none.
C28_ScanNearest ==
    (scan.pc = "done" /\ scan.exists) =>
       /\ scan.ret.ok
       /\ DOMAIN scan.ret.result = { scan.markers[i] : i \in 1..Len(scan.markers) }
       /\ \A m \in DOMAIN scan.ret.result :
             scan.ret.result[m] = IF Within(m) = {} THEN {} ELSE { Nearest(Within(m)) }

\* C29: dir.list with include_hidden = true returns `.` and `..` first, in
\* that order, and then every other entry in ascending byte order of the names.
C29_DotEntriesFirst ==
    (listing.pc = "done" /\ listing.include_hidden /\ listing.ret.ok) =>
       /\ Len(listing.ret.result) = Cardinality(listing.dir) + 2
       /\ listing.ret.result[1] = DotName
       /\ listing.ret.result[2] = DotDotName
       /\ SubSeq(listing.ret.result, 3, Len(listing.ret.result)) = SortByName(listing.dir)

----------------------------------------------------------------------------
(* Properties of process lifetimes *)

\* C31: a process.kill with SIGKILL on a key that is in the pipe table removes
\* the entry even when the child has exited on its own and a process.read or
\* process.list has already observed the exit.
C31_KillRemovesObservedExit ==
    [][\A c \in CallIds : \A key \in ClientKeys :
          (Kill(c, key, SIGKILL) /\ key \in DOMAIN processMap
              /\ ~processMap[key].alive /\ processMap[key].reaped)
          => key \notin DOMAIN processMap']_vars

\* C32: a process.read with timeout_ms > 0 that returns no output for a child
\* that has not exited has waited for timeout_ms; with timeout_ms = 0 it has
\* waited for no more than one short probe of each stream.
C32_ReadWaitsForTimeout ==
    \A c \in CallIds :
        (calls[c].op = "read" /\ calls[c].pc = "done" /\ calls[c].ret.ok) =>
            /\ (calls[c].timeout > 0 /\ calls[c].ret.output = {} /\ ~calls[c].ret.exited)
                   => calls[c].waited >= calls[c].timeout
            /\ calls[c].timeout = 0 => calls[c].waited <= 2 * ProbeMs

----------------------------------------------------------------------------
(* Properties of the watch locks *)

\* a watch.* call that has started and not returned
InProgress(c) == wcalls[c].pc \notin { "idle", "done" }

\* the next step of a watch.* call that has started
WatchStep(c) == WatchOs(c) \/ WatchInsert(c) \/ UnwatchOs(c) \/ UnwatchErase(c)

\* C33: a watch.add or watch.remove that is about to acquire the watcher mutex
\* does not hold the registry mutex, and whenever watch.* calls are in
\* progress one of them can take its next step: no interleaving of watch.add,
\* watch.remove and watch.list deadlocks.
C33_LockOrder ==
    /\ \A c \in WCallIds : wcalls[c].pc \in { "watching", "unwatching" } => pathsLock # c
    /\ (\E c \in WCallIds : InProgress(c))
          => \E c \in WCallIds : InProgress(c) /\ ENABLED WatchStep(c)

\* a watch.add holds the watcher mutex and is about to take the registry
\* mutex while a watch.remove has finished its lookup and waits for the
\* watcher mutex
C33_Witness ==
    \E a \in WCallIds : \E r \in WCallIds :
        /\ wcalls[a].op = "add" /\ wcalls[a].pc = "inserting" /\ watcherLock = a
        /\ wcalls[r].op = "remove" /\ wcalls[r].pc = "unwatching"

----------------------------------------------------------------------------
(* Properties of the shutdown (main.rs) *)

\* the read loop has been left: stdin was at EOF, or failed, before or inside a frame
LoopLeft == reader \in { "join", "exit" }

\* positions of stdout holding the response payload written by task t
ResponsesOf(t) == { i \in ResponseAt : stdout[i].owner = TaskOwner(t) }

\* C34: once stdin has reached EOF, also in the middle of a frame, nothing more
\* is read and no further request is started; the agent exits only when every
\* request read in full before EOF has had its one response written, and there
\* is no response other than theirs.
C34_DrainedBeforeExit ==
    /\ [](reader = "exit" =>
            /\ \A t \in 1..Len(tasks) :
                  tasks[t].pc = "done" /\ Cardinality(ResponsesOf(t)) = 1
            /\ Cardinality(ResponseAt) = Len(tasks))
    /\ [][LoopLeft => (LoopLeft' /\ stdin' = stdin /\ Len(tasks') = Len(tasks))]_vars

\* C35: once stdin has reached EOF the agent exits, whatever handlers are in
\* flight: a process.run whose child has not exited, a process.write into a
\* full pipe or a process.write_pty waiting for the terminal to take data
\* does not keep it alive for ever.
C35_ExitsAfterEof == LoopLeft ~> (reader = "exit")

----------------------------------------------------------------------------
(* Properties of PTY descriptors and children *)

\* C36: no libc::poll of a waiting process.read_pty is made on the master
\* descriptor number of an entry that process.close_pty or process.kill_pty
\* with SIGKILL has removed, and with it closed, in the meantime.  (read, write
\* and the ioctl of resize_pty use the descriptor under the table lock, with
\* the entry in the table.)
C36_NoUseAfterClose == \A c \in CallIds : calls[c].polled # "closed"

\* the cached exit status of the entry of a key ({} without entry or status)
Cached(key) == IF key \in DOMAIN ptyMap THEN ptyMap[key].exit_status ELSE {}

\* call c has returned a read_pty report with an exit code
ReadPtyReported(c) ==
    /\ calls[c].op = "read_pty" /\ calls[c].pc = "done"
    /\ calls[c].ret.exited /\ calls[c].ret.exit_code # {}

\* call c has returned a list_pty report with an exit code for key
ListPtyReported(c, key) ==
    /\ calls[c].op = "list_pty" /\ calls[c].pc = "done"
    /\ key \in DOMAIN calls[c].ret.entries
    /\ calls[c].ret.entries[key].exited

\* C37: an exit code reported by read_pty or list_pty for a key is the cached
\* status of its entry for as long as the entry is in the table; the cached
\* status never changes once set; and every read_pty or list_pty made while
\* it is set reports exited = true with that code.
C37_ExitStatusStable ==
    /\ [](\A c \in CallIds :
            /\ (ReadPtyReported(c) /\ calls[c].key \in DOMAIN ptyMap)
                  => calls[c].ret.exit_code = Cached(calls[c].key)
            /\ \A key \in DOMAIN ptyMap :
                  ListPtyReported(c, key) => calls[c].ret.entries[key].exit_code = Cached(key))
    /\ [][\A key \in DOMAIN ptyMap :
            (Cached(key) # {} /\ key \in DOMAIN ptyMap')
               => ptyMap'[key].exit_status = Cached(key)]_vars
    /\ [][\A c \in CallIds :
            /\ (ReadPtyEnds(c) /\ calls'[c].pc = "done" /\ Cached(calls'[c].key) # {})
                  => /\ calls'[c].ret.exited
                     /\ calls'[c].ret.exit_code = Cached(calls'[c].key)
            /\ ListPty(c) =>
                  \A key \in DOMAIN ptyMap :
                      Cached(key) # {} =>
                         /\ calls'[c].ret.entries[key].exited
                         /\ calls'[c].ret.entries[key].exit_code = Cached(key)]_vars

\* a read_pty and a list_pty have both reported the exit of the same child,
\* whose entry is still in the table
C37_Witness ==
    \E c \in CallIds : \E d \in CallIds :
        /\ ReadPtyReported(c)
        /\ calls[c].key \in DOMAIN ptyMap
        /\ ListPtyReported(d, calls[c].key)

\* the children that kill_pty and close_pty have taken out of the table
LeftByRemoval ==
    UNION { calls[c].left.child : c \in { d \in CallIds : calls[d].op \in { "kill_pty", "close_pty" } } }

\* C38: a PTY child whose entry was removed by close_pty, or by kill_pty with
\* SIGKILL, and that has exited, has been waited for.  (waitpid is only ever
\* called on the child of an entry, so a child that has left the table
\* unreaped is never reaped.)
C38_RemovedChildrenReaped == \A m \in LeftByRemoval : ~m.alive => m.reaped

\* C39: kill_pty and close_pty do not call kill(2) with the pid of a child
\* that waitpid has already returned (its exit status is cached in the entry).
C39_NoSignalAfterReap == \A c \in CallIds : calls[c].target # "reaped"

\* C40: a process.start_pty that fails inserts no entry and consumes no key,
\* and leaves neither the master descriptor open nor a forked child behind.
C40_FailedStartLeavesNothing ==
    [][\A c \in CallIds :
          (PtyFork(c) /\ calls'[c].pc = "done") =>
              /\ ~calls'[c].ret.ok
              /\ ptyMap' = ptyMap
              /\ ptyCounter' = ptyCounter /\ ptyIssued' = ptyIssued
              /\ calls'[c].left = NothingLeft]_vars

====
